---- MODULE Spec2Model ----
(***************************************************************************)
(* Market Suite (dashboard-autos): the ETL / normalisation pipeline of     *)
(* market_suite/data.py and the aggregation engine of                      *)
(* market_suite/analytics.py, as state machines over bounded inputs.       *)
(*                                                                         *)
(* Text is a sequence of one-character strings, so that strip, upper and   *)
(* the regular expressions of to_number_series are computed, not assumed.  *)
(* A cell value is a record [t, s, n, d]:                                  *)
(*   t = "str"  : the text s                                               *)
(*   t = "fin"  : the finite number n/d (d > 0, lowest terms)              *)
(*   t = "inf"  : +infinity (n = 1) or -infinity (n = -1)                  *)
(*   t = "nan"  : NaN                                                      *)
(*   t = "none" : None                                                     *)
(*   t = "date" : the timestamp whose ordinal yyyymmdd is n                *)
(*   t = "nat"  : NaT                                                      *)
(* Floating point is idealised as exact rational arithmetic extended with  *)
(* inf and NaN; rounding is outside the model.                             *)
(***************************************************************************)
EXTENDS Integers, Sequences, FiniteSets, TLC

VARIABLES
    pc,            \* position of the run that is modelled
    cell,          \* SpecNum: the raw cell of a designated numeric column
    num,           \* SpecNum: to_number_series applied to cell
    num2,          \* SpecNum: to_number_series applied to num
    raw,           \* the table as read from the parquet source (df0)
    df,            \* the canonical table returned by etl_clean(raw)
    ultima_fecha,  \* the max_observed_date returned by etl_clean(raw)
    df2,           \* the table returned by etl_clean(df)
    ultima2,       \* the max_observed_date returned by etl_clean(df)
    time_view,     \* the mode passed to apply_time_view
    df_main,       \* the table returned by apply_time_view
    raised,        \* the exception the last call raised, "" for none
    sel_years,     \* the years selected in the sidebar
    df_view,       \* df_main restricted to the selected years
    top_count,     \* the top_n passed to top_share
    top,           \* the table returned by top_share
    yoy,           \* what yoy_table returned
    monthly,       \* the table returned by agg_monthly
    df_req,        \* the table returned by ensure_required_columns
    missing,       \* the list of missing columns it returned
    session,       \* st.session_state: the keys the data flow and the time view use
    env,           \* what the deployment holds: the local file and the DATA_URL secret
    loaded,        \* what load_data_flow returned besides the table and the date
    pdf_dataset    \* the table the page returned to main

numVars == <<cell, num, num2>>
etlVars == <<raw, df, ultima_fecha, df2, ultima2>>
viewVars == <<time_view, df_main, raised>>
aggVars == <<sel_years, df_view, top_count, top, yoy, monthly>>
reqVars == <<df_req, missing>>
sessVars == <<session, env, loaded, pdf_dataset>>

(***************************************************************************)
(* Bounds                                                                  *)
(***************************************************************************)
MaxLen == 4     \* longest enumerated raw numeric cell, in characters
MaxRows == 2    \* most rows of a raw table

(***************************************************************************)
(* Values                                                                  *)
(***************************************************************************)
Str(s)    == [t |-> "str",  s |-> s,    n |-> 0, d |-> 1]
Fin(n, d) == [t |-> "fin",  s |-> <<>>, n |-> n, d |-> d]
PInf      == [t |-> "inf",  s |-> <<>>, n |-> 1, d |-> 1]
NInf      == [t |-> "inf",  s |-> <<>>, n |-> -1, d |-> 1]
NaN       == [t |-> "nan",  s |-> <<>>, n |-> 0, d |-> 1]
None      == [t |-> "none", s |-> <<>>, n |-> 0, d |-> 1]
NaT       == [t |-> "nat",  s |-> <<>>, n |-> 0, d |-> 1]
\* a timestamp; n is the ordinal yyyymmdd, so that dates compare as numbers
Date(y, m, dd) == [t |-> "date", s |-> <<>>, n |-> y * 10000 + m * 100 + dd, d |-> 1]
YearOf(v)  == v.n \div 10000
MonthOf(v) == (v.n \div 100) % 100
DayOf(v)   == v.n % 100
Zero      == Fin(0, 1)

Abs(x) == IF x < 0 THEN -x ELSE x

RECURSIVE Gcd(_, _)
Gcd(a, b) == IF b = 0 THEN a ELSE Gcd(b, a % b)

RECURSIVE Pow10(_)
Pow10(k) == IF k = 0 THEN 1 ELSE 10 * Pow10(k - 1)

\* the finite number n/d in lowest terms with a positive denominator
Rat(n, d) ==
    LET g == Gcd(Abs(n), Abs(d))
        sgn == IF d < 0 THEN -1 ELSE 1
    IN  Fin(sgn * (n \div g), sgn * (d \div g))

(***************************************************************************)
(* Characters                                                              *)
(***************************************************************************)
Digits == {"0", "1", "2", "3", "4", "5", "6", "7", "8", "9"}
Lower == {"a", "b", "c", "d", "e", "f", "g", "h", "i", "j", "k", "l", "m",
          "n", "o", "p", "q", "r", "s", "t", "u", "v", "w", "x", "y", "z", "ñ"}
Upper == {"A", "B", "C", "D", "E", "F", "G", "H", "I", "J", "K", "L", "M",
          "N", "O", "P", "Q", "R", "S", "T", "U", "V", "W", "X", "Y", "Z", "Ñ"}
Spaces == {" ", "\t"}

IsDigit(c) == c \in Digits
\* \w of the re module
IsWordChar(c) == c \in Digits \cup Lower \cup Upper \cup {"_"}

DigitVal(c) ==
    CASE c = "0" -> 0 [] c = "1" -> 1 [] c = "2" -> 2 [] c = "3" -> 3
      [] c = "4" -> 4 [] c = "5" -> 5 [] c = "6" -> 6 [] c = "7" -> 7
      [] c = "8" -> 8 [] c = "9" -> 9

DigitChar(v) ==
    CASE v = 0 -> "0" [] v = 1 -> "1" [] v = 2 -> "2" [] v = 3 -> "3"
      [] v = 4 -> "4" [] v = 5 -> "5" [] v = 6 -> "6" [] v = 7 -> "7"
      [] v = 8 -> "8" [] v = 9 -> "9"

UpperChar(c) ==
    CASE c = "a" -> "A" [] c = "b" -> "B" [] c = "c" -> "C" [] c = "d" -> "D"
      [] c = "e" -> "E" [] c = "f" -> "F" [] c = "g" -> "G" [] c = "h" -> "H"
      [] c = "i" -> "I" [] c = "j" -> "J" [] c = "k" -> "K" [] c = "l" -> "L"
      [] c = "m" -> "M" [] c = "n" -> "N" [] c = "o" -> "O" [] c = "p" -> "P"
      [] c = "q" -> "Q" [] c = "r" -> "R" [] c = "s" -> "S" [] c = "t" -> "T"
      [] c = "u" -> "U" [] c = "v" -> "V" [] c = "w" -> "W" [] c = "x" -> "X"
      [] c = "y" -> "Y" [] c = "z" -> "Z" [] c = "ñ" -> "Ñ"
      [] OTHER -> c

LowerChar(c) ==
    IF \E l \in Lower : UpperChar(l) = c
    THEN CHOOSE l \in Lower : UpperChar(l) = c
    ELSE c

(***************************************************************************)
(* Text                                                                    *)
(***************************************************************************)
\* str.upper()
UpperStr(s) == [i \in 1..Len(s) |-> UpperChar(s[i])]
LowerStr(s) == [i \in 1..Len(s) |-> LowerChar(s[i])]

\* the elements of s at the positions in I up to i, in order
RECURSIVE PickUpTo(_, _, _)
PickUpTo(s, I, i) ==
    IF i = 0 THEN <<>>
    ELSE IF i \in I THEN Append(PickUpTo(s, I, i - 1), s[i])
         ELSE PickUpTo(s, I, i - 1)

\* the elements of s at the positions in I, in order
Pick(s, I) == PickUpTo(s, I, Len(s))

\* the positions of the sequence s
Positions(s) == 1..Len(s)

\* str.strip(): leading and trailing whitespace removed
Strip(s) ==
    LET solid == {i \in 1..Len(s) : s[i] \notin Spaces}
        Min(S) == CHOOSE x \in S : \A y \in S : x <= y
        Max(S) == CHOOSE x \in S : \A y \in S : x >= y
    IN  IF solid = {} THEN <<>> ELSE SubSeq(s, Min(solid), Max(solid))

\* the decimal digits of the natural number v, most significant first
RECURSIVE NatDigits(_)
NatDigits(v) ==
    IF v < 10 THEN <<DigitChar(v)>>
    ELSE Append(NatDigits(v \div 10), DigitChar(v % 10))

\* the value of a sequence of digits (0 for the empty sequence)
RECURSIVE DigitsValue(_)
DigitsValue(s) ==
    IF s = <<>> THEN 0
    ELSE 10 * DigitsValue(SubSeq(s, 1, Len(s) - 1)) + DigitVal(s[Len(s)])

\* v written with exactly k digits, zero-padded on the left
RECURSIVE PadDigits(_, _)
PadDigits(v, k) ==
    IF k = 0 THEN <<>>
    ELSE Append(PadDigits(v \div 10, k - 1), DigitChar(v % 10))

(***************************************************************************)
(* astype(str): how pandas writes a cell as text.  A float64 is written    *)
(* by repr: integer part, ".", the fraction digits without trailing zeros  *)
(* (".0" for a whole number).  The values of the model stay in the range   *)
(* where repr uses no exponent.                                            *)
(***************************************************************************)
\* least k with d | 10^k (d is a divisor of a power of ten for every parsed value)
RECURSIVE DecimalPlaces(_, _)
DecimalPlaces(d, k) ==
    IF Pow10(k) % d = 0 THEN k ELSE DecimalPlaces(d, k + 1)

ReprFloat(v) ==
    LET k    == DecimalPlaces(v.d, 0)
        m    == Abs(v.n) * (Pow10(k) \div v.d)
        ip   == m \div Pow10(k)
        fp   == m % Pow10(k)
        sign == IF v.n < 0 THEN <<"-">> ELSE <<>>
    IN  sign \o NatDigits(ip) \o <<".">> \o
        (IF k = 0 THEN <<"0">> ELSE PadDigits(fp, k))

AsTypeStr(v) ==
    CASE v.t = "str"  -> v.s
      [] v.t = "fin"  -> ReprFloat(v)
      [] v.t = "inf"  -> IF v.n > 0 THEN <<"i", "n", "f">> ELSE <<"-", "i", "n", "f">>
      [] v.t = "nan"  -> <<"n", "a", "n">>
      [] v.t = "none" -> <<"N", "o", "n", "e">>
      [] v.t = "nat"  -> <<"N", "a", "T">>
      [] v.t = "date" -> PadDigits(YearOf(v), 4) \o <<"-">> \o PadDigits(MonthOf(v), 2)
                           \o <<"-">> \o PadDigits(DayOf(v), 2)

(***************************************************************************)
(* pd.to_numeric(errors="coerce") on one text cell: an optional sign, then *)
(* digits with at most one "." and at least one digit; "inf", "infinity"   *)
(* and "nan" in any case; everything else, the empty text included, NaN.   *)
(* (No enumerated cell holds an exponent.)                                 *)
(***************************************************************************)
ToNumeric(s) ==
    LET signed == s # <<>> /\ s[1] \in {"-", "+"}
        neg    == signed /\ s[1] = "-"
        body   == IF signed THEN SubSeq(s, 2, Len(s)) ELSE s
        low    == LowerStr(body)
        dots   == {i \in 1..Len(body) : body[i] = "."}
        dot    == IF dots = {} THEN Len(body) + 1 ELSE CHOOSE i \in dots : TRUE
        ipart  == SubSeq(body, 1, dot - 1)
        fpart  == SubSeq(body, dot + 1, Len(body))
        k      == Len(fpart)
        mag    == DigitsValue(ipart) * Pow10(k) + DigitsValue(fpart)
    IN  IF low \in {<<"i", "n", "f">>, <<"i", "n", "f", "i", "n", "i", "t", "y">>}
        THEN (IF neg THEN NInf ELSE PInf)
        ELSE IF low = <<"n", "a", "n">> THEN NaN
        ELSE IF /\ Cardinality(dots) <= 1
                /\ Len(ipart) + Len(fpart) >= 1
                /\ \A i \in 1..Len(body) : i \in dots \/ IsDigit(body[i])
             THEN Rat(IF neg THEN -mag ELSE mag, Pow10(k))
             ELSE NaN

\* Series.fillna(0) on one cell
FillNa0(v) == IF v.t \in {"nan", "none", "nat"} THEN Zero ELSE v

(***************************************************************************)
(* to_number_series, data.py:68-73 (the same body as app.py:160-166)       *)
(***************************************************************************)
\* line 70 without the currency symbols in the character class
StripSymbols_KeepCurrency(s) == SelectSeq(s, LAMBDA c : c \notin ({","} \cup Spaces))

\* line 70: .str.replace(r"[,$₡\s]", "", regex=True)
StripSymbols(s) == SelectSeq(s, LAMBDA c : c \notin ({",", "$", "₡"} \cup Spaces))

\* line 71: a "." matched by (?<=\d)\.(?=\d{3}\b)
IsThousandsDot(s, i) ==
    /\ s[i] = "."
    /\ i > 1 /\ IsDigit(s[i - 1])
    /\ i + 3 <= Len(s)
    /\ \A j \in (i + 1)..(i + 3) : IsDigit(s[j])
    /\ (i + 4 > Len(s) \/ ~IsWordChar(s[i + 4]))

\* line 71: .str.replace(r"(?<=\d)\.(?=\d{3}\b)", "", regex=True)
DropThousandsDots(s) ==
    Pick(s, {i \in Positions(s) : ~IsThousandsDot(s, i)})

\* line 72: .str.replace(",", ".", regex=False)
CommaToDot(s) == [i \in 1..Len(s) |-> IF s[i] = "," THEN "." ELSE s[i]]

\* one cell of the series through lines 70-73
to_number(v) ==
    FillNa0(ToNumeric(CommaToDot(DropThousandsDots(StripSymbols(AsTypeStr(v))))))

to_number_series(col) == [i \in 1..Len(col) |-> to_number(col[i])]

(***************************************************************************)
(* Tables.  A DataFrame is [hdr, idx, rows]: hdr the column names in order, *)
(* rows the rows in order, each a sequence of cells aligned with hdr, and   *)
(* idx the index label of each row (a filter keeps the labels of the rows   *)
(* it keeps).                                                               *)
(***************************************************************************)
NoTable == [hdr |-> <<>>, idx |-> <<>>, rows |-> <<>>]

\* RangeIndex(n): the labels 0..n-1
RangeIndex(n) == [i \in 1..n |-> i - 1]

HasCol(t, c) == \E i \in 1..Len(t.hdr) : t.hdr[i] = c
ColIdx(t, c) == CHOOSE i \in 1..Len(t.hdr) : t.hdr[i] = c
\* df[c] as a sequence of cells
Col(t, c) == [r \in 1..Len(t.rows) |-> t.rows[r][ColIdx(t, c)]]
\* row[c]
At(t, row, c) == row[ColIdx(t, c)]

\* df[c] = vals: an existing column is overwritten in place, a new one is appended
SetCol(t, c, vals) ==
    IF HasCol(t, c)
    THEN [t EXCEPT !.rows = [r \in 1..Len(t.rows) |->
                                [t.rows[r] EXCEPT ![ColIdx(t, c)] = vals[r]]]]
    ELSE [hdr  |-> Append(t.hdr, c),
          idx  |-> t.idx,
          rows |-> [r \in 1..Len(t.rows) |-> Append(t.rows[r], vals[r])]]

\* df[mask]: the rows at the positions in I, in order
FilterRows(t, I) ==
    [t EXCEPT !.rows = Pick(t.rows, I), !.idx = Pick(t.idx, I)]

(***************************************************************************)
(* Column names, data.py:25-47                                             *)
(***************************************************************************)
FECHA       == <<"F", "E", "C", "H", "A">>
ANIO        == <<"A", "Ñ", "O">>
MES         == <<"M", "E", "S">>
MES_NUM     == <<"M", "E", "S", "_", "N", "U", "M">>
MARCA       == <<"M", "A", "R", "C", "A">>
MODELO      == <<"M", "O", "D", "E", "L", "O">>
EMPRESA     == <<"E", "M", "P", "R", "E", "S", "A">>
COMBUSTIBLE == <<"C", "O", "M", "B", "U", "S", "T", "I", "B", "L", "E">>
CARROCERIA  == <<"C", "A", "R", "R", "O", "C", "E", "R", "I", "A">>
CANTIDAD    == <<"C", "A", "N", "T", "I", "D", "A", "D">>
VALOR_CIF   == <<"V", "A", "L", "O", "R", " ", "U", "S", "$", " ", "C", "I", "F">>
FLETE       == <<"F", "L", "E", "T", "E">>
CIF_UNITARIO   == <<"C", "I", "F", "_", "U", "N", "I", "T", "A", "R", "I", "O">>
FLETE_UNITARIO == <<"F", "L", "E", "T", "E", "_", "U", "N", "I", "T", "A", "R", "I", "O">>

\* the alias table: <<name, canonical name>>
CANON_COLS ==
    { <<FECHA, FECHA>>,
      <<ANIO, ANIO>>,
      <<<<"A", "N", "O">>, ANIO>>,
      <<<<"A", "N", "I", "O">>, ANIO>>,
      <<MES, MES>>,
      <<MES_NUM, MES_NUM>>,
      <<MARCA, MARCA>>,
      <<MODELO, MODELO>>,
      <<EMPRESA, EMPRESA>>,
      <<COMBUSTIBLE, COMBUSTIBLE>>,
      <<CARROCERIA, CARROCERIA>>,
      <<CANTIDAD, CANTIDAD>>,
      <<VALOR_CIF, VALOR_CIF>>,
      <<<<"V", "A", "L", "O", "R", " ", "U", "S", "D", " ", "C", "I", "F">>, VALOR_CIF>>,
      <<<<"V", "A", "L", "O", "R", "_", "U", "S", "D", "_", "C", "I", "F">>, VALOR_CIF>>,
      <<<<"C", "I", "F">>, VALOR_CIF>>,
      <<FLETE, FLETE>>,
      <<<<"F", "L", "E", "T", "E", "_", "U", "S", "D">>, FLETE>> }

TEXT_COLS == <<MARCA, MODELO, EMPRESA, COMBUSTIBLE, CARROCERIA, MES>>
NUM_COLS == <<CANTIDAD, VALOR_CIF, FLETE>>

\* the brand alias-correction table: <<variant, canonical brand>>
BRAND_FIXES ==
    { <<<<"M", ".", "G", ".">>, <<"M", "G">>>>,
      <<<<"M", ".", " ", "G", ".">>, <<"M", "G">>>>,
      <<<<"M", "O", "R", "R", "I", "S", " ", "G", "A", "R", "A", "G", "E", "S">>, <<"M", "G">>>>,
      <<<<"B", "Y", "D", " ", "A", "U", "T", "O">>, <<"B", "Y", "D">>>>,
      <<<<"T", "O", "Y", "O", "T", "A", " ", "M", "O", "T", "O", "R">>, <<"T", "O", "Y", "O", "T", "A">>>>,
      <<<<"M", "B">>, <<"M", "E", "R", "C", "E", "D", "E", "S", "-", "B", "E", "N", "Z">>>> }

\* dict.get(k, default) on a table of pairs
DictGet(dict, k, default) ==
    IF \E p \in dict : p[1] = k THEN (CHOOSE p \in dict : p[1] = k)[2] ELSE default

(***************************************************************************)
(* safe_upper_str, data.py:62-65                                           *)
(***************************************************************************)
safe_upper_str(x) ==
    IF x.t = "none" THEN Str(<<>>) ELSE Str(UpperStr(Strip(AsTypeStr(x))))

(***************************************************************************)
(* canonicalize_columns, data.py:108-123                                   *)
(***************************************************************************)
\* .str.replace(r"\s+", " ", regex=True): every run of whitespace becomes one space
CollapseSpaces(s) ==
    LET one == Pick(s, {i \in Positions(s) : ~(s[i] \in Spaces /\ i > 1 /\ s[i - 1] \in Spaces)})
    IN  [i \in 1..Len(one) |-> IF one[i] \in Spaces THEN " " ELSE one[i]]

\* the alias table consulted before the names are normalised: a name in
\* another casing misses the table on the first pass and hits it on the second
canonicalize_columns_AliasFirst(t) ==
    [t EXCEPT !.hdr = [i \in 1..Len(t.hdr) |->
        DictGet(CANON_COLS, t.hdr[i], UpperStr(CollapseSpaces(Strip(t.hdr[i]))))]]

canonicalize_columns(t) ==
    [t EXCEPT !.hdr = [i \in 1..Len(t.hdr) |->
        LET c == UpperStr(CollapseSpaces(Strip(t.hdr[i])))
        IN  DictGet(CANON_COLS, c, c)]]

(***************************************************************************)
(* pd.to_datetime(errors="coerce") on one cell: a timestamp is kept, a     *)
(* text of the form yyyy-mm-dd naming a calendar day is parsed, and every  *)
(* other cell of the model (None, other text) becomes NaT.                 *)
(***************************************************************************)
DaysIn(y, m) ==
    IF m \in {4, 6, 9, 11} THEN 30
    ELSE IF m # 2 THEN 31
    ELSE IF (y % 4 = 0 /\ y % 100 # 0) \/ y % 400 = 0 THEN 29 ELSE 28

ToDatetime(v) ==
    IF v.t = "date" THEN v
    ELSE IF v.t # "str" THEN NaT
    ELSE LET s == v.s
             shaped == /\ Len(s) = 10
                       /\ s[5] = "-" /\ s[8] = "-"
                       /\ \A i \in {1, 2, 3, 4, 6, 7, 9, 10} : IsDigit(s[i])
             y  == DigitsValue(SubSeq(s, 1, 4))
             m  == DigitsValue(SubSeq(s, 6, 7))
             dd == DigitsValue(SubSeq(s, 9, 10))
         IN  IF shaped /\ y >= 1 /\ m \in 1..12 /\ dd >= 1 /\ dd <= DaysIn(y, m)
             THEN Date(y, m, dd)
             ELSE NaT

\* Series.max() of a datetime column without NaT: NaT when the column is empty
MaxDate(col) ==
    IF Len(col) = 0 THEN NaT
    ELSE col[CHOOSE i \in 1..Len(col) : \A j \in 1..Len(col) : col[j].n <= col[i].n]

(***************************************************************************)
(* Arithmetic on numeric cells (IEEE semantics for inf and NaN)            *)
(***************************************************************************)
IsNum(v) == v.t \in {"fin", "inf", "nan"}
IsFinite(v) == v.t = "fin"
IsZero(v) == v.t = "fin" /\ v.n = 0
SignOf(v) == IF v.n < 0 THEN -1 ELSE IF v.n > 0 THEN 1 ELSE 0

\* a >= b for numbers, FALSE when either is NaN
Geq(a, b) ==
    CASE a.t = "nan" \/ b.t = "nan" -> FALSE
      [] a.t = "inf" /\ b.t = "inf" -> a.n >= b.n
      [] a.t = "inf"                -> a.n > 0
      [] b.t = "inf"                -> b.n < 0
      [] OTHER                      -> a.n * b.d >= b.n * a.d

\* a / b for a denominator that is not zero
Div(a, b) ==
    CASE a.t = "nan" \/ b.t = "nan" -> NaN
      [] a.t = "inf" /\ b.t = "inf" -> NaN
      [] a.t = "inf"                -> IF a.n * SignOf(b) > 0 THEN PInf ELSE NInf
      [] b.t = "inf"                -> Zero
      [] OTHER                      -> Rat(a.n * b.d, a.d * b.n)

\* Series.replace(0, np.nan) on one cell
ZeroToNaN(v) == IF IsZero(v) THEN NaN ELSE v
\* Series.replace([np.inf, -np.inf], np.nan) on one cell
InfToNaN(v) == IF v.t = "inf" THEN NaN ELSE v

(***************************************************************************)
(* etl_clean, data.py:145-185 (the same body as app.py:317-356)            *)
(***************************************************************************)
\* lines 150-152: df[col] = df[col].map(safe_upper_str) for the text columns present
RECURSIVE CleanText(_, _)
CleanText(t, k) ==
    IF k = 0 THEN t
    ELSE LET u == CleanText(t, k - 1)
             c == TEXT_COLS[k]
             col == Col(u, c)
         IN  IF HasCol(u, c)
             THEN SetCol(u, c, [r \in 1..Len(col) |-> safe_upper_str(col[r])])
             ELSE u

\* lines 155-156 left out
CleanBrand_Skipped(t) == t

\* lines 155-156: df["MARCA"] = df["MARCA"].replace(BRAND_FIXES)
CleanBrand(t) ==
    IF HasCol(t, MARCA)
    THEN LET col == Col(t, MARCA)
         IN  SetCol(t, MARCA, [r \in 1..Len(col) |->
                IF col[r].t = "str" THEN Str(DictGet(BRAND_FIXES, col[r].s, col[r].s))
                ELSE col[r]])
    ELSE t

\* lines 159-161: df[col] = to_number_series(df[col]) for the numeric columns present
RECURSIVE CleanNumbers(_, _)
CleanNumbers(t, k) ==
    IF k = 0 THEN t
    ELSE LET u == CleanNumbers(t, k - 1)
             c == NUM_COLS[k]
         IN  IF HasCol(u, c) THEN SetCol(u, c, to_number_series(Col(u, c))) ELSE u

\* lines 164-170: the date column parsed, rows without a date dropped, year and
\* month derived, and the maximum date taken; [df, ultima]
CleanDates(t) ==
    IF HasCol(t, FECHA)
    THEN LET col    == Col(t, FECHA)
             parsed == SetCol(t, FECHA, [r \in 1..Len(col) |-> ToDatetime(col[r])])
             HasDate(row) == At(parsed, row, FECHA).t # "nat"
             kept   == FilterRows(parsed, {r \in Positions(parsed.rows) : HasDate(parsed.rows[r])})
             fechas == Col(kept, FECHA)
             withY  == SetCol(kept, ANIO, [r \in 1..Len(fechas) |-> Fin(YearOf(fechas[r]), 1)])
             withM  == SetCol(withY, MES_NUM, [r \in 1..Len(fechas) |-> Fin(MonthOf(fechas[r]), 1)])
         IN  [df |-> withM, ultima |-> MaxDate(fechas)]
    ELSE [df |-> t, ultima |-> None]

\* lines 174-175 and 178-179 without the trailing .fillna(0)
UnitValue_NoFill(value, quantity) == InfToNaN(Div(value, ZeroToNaN(quantity)))

\* lines 174-175 and 178-179: (value / quantity with 0 made NaN), inf made NaN, NaN made 0
UnitValue(value, quantity) == FillNa0(InfToNaN(Div(value, ZeroToNaN(quantity))))

\* lines 173-179: the two unit metrics, each when its columns are present
AddUnitValues(t) ==
    LET Unit(u, valueCol, unitCol) ==
            IF HasCol(u, valueCol) /\ HasCol(u, CANTIDAD)
            THEN LET values == Col(u, valueCol)
                     quantities == Col(u, CANTIDAD)
                 IN  SetCol(u, unitCol, [r \in 1..Len(values) |->
                            UnitValue(values[r], quantities[r])])
            ELSE u
    IN  Unit(Unit(t, VALOR_CIF, CIF_UNITARIO), FLETE, FLETE_UNITARIO)

\* lines 182-183 left out
DropNegative_Skipped(t) == t

\* lines 182-183: df = df[df["CANTIDAD"] >= 0]
DropNegative(t) ==
    IF HasCol(t, CANTIDAD)
    THEN LET NonNeg(row) == Geq(At(t, row, CANTIDAD), Zero)
         IN  FilterRows(t, {r \in Positions(t.rows) : NonNeg(t.rows[r])})
    ELSE t

\* [df, ultima]: the canonical table and the max_observed_date
etl_clean(t) ==
    LET named == canonicalize_columns(t)
        typed == CleanNumbers(CleanBrand(CleanText(named, Len(TEXT_COLS))), Len(NUM_COLS))
        dated == CleanDates(typed)
    IN  [df |-> DropNegative(AddUnitValues(dated.df)), ultima |-> dated.ultima]

(***************************************************************************)
(* ensure_required_columns, data.py:126-142 (the same body as              *)
(* app.py:297-314); [df, missing]                                          *)
(***************************************************************************)
\* line 128
REQUIRED == <<CANTIDAD, VALOR_CIF, FECHA, MARCA>>

\* lines 129 and 138: [c for c in required if c not in df.columns]
MissingOf(t) == SelectSeq(REQUIRED, LAMBDA c : ~HasCol(t, c))

\* .astype(int) on one cell, [ok, n]: text of an integer (int() strips the
\* whitespace around it) and an integer convert, a float is truncated towards
\* zero, and every other cell (other text, None, NaN, inf) raises
AsInt(v) ==
    CASE v.t = "str" ->
            LET s == Strip(v.s)
                signed == Len(s) > 0 /\ s[1] \in {"+", "-"}
                digits == IF signed THEN Tail(s) ELSE s
                value  == DigitsValue(digits)
            IN  IF Len(digits) > 0 /\ \A i \in 1..Len(digits) : IsDigit(digits[i])
                THEN [ok |-> TRUE, n |-> IF signed /\ s[1] = "-" THEN -value ELSE value]
                ELSE [ok |-> FALSE, n |-> 0]
      [] v.t = "fin" ->
            [ok |-> TRUE, n |-> IF v.n >= 0 THEN v.n \div v.d ELSE -((-v.n) \div v.d)]
      [] OTHER -> [ok |-> FALSE, n |-> 0]

\* str(n) of an int
IntStr(n) == IF n < 0 THEN <<"-">> \o NatDigits(-n) ELSE NatDigits(n)

\* lines 134-135: year + "-" + month + "-01"
YearMonthText(y, m) == IntStr(y) \o <<"-">> \o IntStr(m) \o <<"-", "0", "1">>

\* line 134: pd.to_datetime(errors="coerce") on such a text: a year of four
\* digits, a month of one or two digits in 1..12 and a day of two digits parse;
\* other text becomes NaT
ToDatetimeYearMonth(s) ==
    LET dashes == {i \in Positions(s) : s[i] = "-"}
        d1 == CHOOSE i \in dashes : \A j \in dashes : i <= j
        d2 == CHOOSE i \in dashes : \A j \in dashes : j <= i
        ys == SubSeq(s, 1, d1 - 1)
        ms == SubSeq(s, d1 + 1, d2 - 1)
        ds == SubSeq(s, d2 + 1, Len(s))
        AllDigits(f) == \A i \in 1..Len(f) : IsDigit(f[i])
    IN  IF /\ Cardinality(dashes) = 2
           /\ Len(ys) = 4 /\ Len(ms) \in 1..2 /\ Len(ds) = 2
           /\ AllDigits(ys) /\ AllDigits(ms) /\ AllDigits(ds)
           /\ DigitsValue(ys) >= 1
           /\ DigitsValue(ms) \in 1..12
           /\ DigitsValue(ds) \in 1..DaysIn(DigitsValue(ys), DigitsValue(ms))
        THEN Date(DigitsValue(ys), DigitsValue(ms), DigitsValue(ds))
        ELSE NaT

\* ensure_required_columns with the list of line 129 returned as it is, line 138
\* left out
ensure_required_columns_StaleList(t) ==
    LET missing0 == MissingOf(t)
        years    == [r \in Positions(t.rows) |-> AsInt(At(t, t.rows[r], ANIO))]
        months   == [r \in Positions(t.rows) |-> AsInt(At(t, t.rows[r], MES_NUM))]
    IN  IF /\ \E i \in Positions(missing0) : missing0[i] = FECHA
           /\ HasCol(t, ANIO) /\ HasCol(t, MES_NUM)
           /\ \A r \in Positions(t.rows) : years[r].ok /\ months[r].ok
        THEN [df |-> SetCol(t, FECHA, [r \in Positions(t.rows) |->
                        ToDatetimeYearMonth(YearMonthText(years[r].n, months[r].n))]),
              missing |-> missing0]
        ELSE [df |-> t, missing |-> missing0]

\* when FECHA is missing and AÑO and MES_NUM are there, FECHA is built from them
\* and the list recomputed; a cell that does not convert raises inside the try,
\* and the table and the list stay as they were
ensure_required_columns(t) ==
    LET missing0 == MissingOf(t)
        years    == [r \in Positions(t.rows) |-> AsInt(At(t, t.rows[r], ANIO))]
        months   == [r \in Positions(t.rows) |-> AsInt(At(t, t.rows[r], MES_NUM))]
    IN  IF /\ \E i \in Positions(missing0) : missing0[i] = FECHA
           /\ HasCol(t, ANIO) /\ HasCol(t, MES_NUM)
           /\ \A r \in Positions(t.rows) : years[r].ok /\ months[r].ok
        THEN LET built == SetCol(t, FECHA, [r \in Positions(t.rows) |->
                             ToDatetimeYearMonth(YearMonthText(years[r].n, months[r].n))])
             IN  [df |-> built, missing |-> MissingOf(built)]
        ELSE [df |-> t, missing |-> missing0]

(***************************************************************************)
(* apply_time_view, data.py:188-194; [df, raised]                          *)
(***************************************************************************)
\* df["MES_NUM"] < mes_corte on one cell
MonthLess(v, mes_corte) == v.t = "fin" /\ v.n < mes_corte * v.d

\* df["MES_NUM"] <= mes_corte on one cell
MonthLeq(v, mes_corte) == v.t = "fin" /\ v.n <= mes_corte * v.d

\* apply_time_view without the test of the mode on line 190
apply_time_view_AnyMode(t, ultima, tv) ==
    IF ultima.t # "none"
    THEN IF ultima.t = "nat"
         THEN [df |-> NoTable, raised |-> "ValueError"]
         ELSE LET mes_corte == MonthOf(ultima)
                  InWindow(row) == MonthLeq(At(t, row, MES_NUM), mes_corte)
              IN  IF HasCol(t, MES_NUM)
                  THEN [df |-> FilterRows(t, {r \in Positions(t.rows) : InWindow(t.rows[r])}),
                        raised |-> ""]
                  ELSE [df |-> t, raised |-> ""]
    ELSE [df |-> t, raised |-> ""]

apply_time_view(t, ultima, tv) ==
    IF tv = "YTD" /\ ultima.t # "none"
    THEN IF ultima.t = "nat"
         THEN \* int(NaT.month): the month of NaT is NaN, and int(NaN) raises
              [df |-> NoTable, raised |-> "ValueError"]
         ELSE LET mes_corte == MonthOf(ultima)
                  InWindow(row) == MonthLeq(At(t, row, MES_NUM), mes_corte)
              IN  IF HasCol(t, MES_NUM)
                  THEN [df |-> FilterRows(t, {r \in Positions(t.rows) : InWindow(t.rows[r])}), raised |-> ""]
                  ELSE [df |-> t, raised |-> ""]
    ELSE [df |-> t, raised |-> ""]

(***************************************************************************)
(* Sums and groups                                                         *)
(***************************************************************************)
Neg(a) == IF a.t = "nan" THEN NaN ELSE [a EXCEPT !.n = -a.n]

Add(a, b) ==
    CASE a.t = "nan" \/ b.t = "nan" -> NaN
      [] a.t = "inf" /\ b.t = "inf" -> IF a.n = b.n THEN a ELSE NaN
      [] a.t = "inf"                -> a
      [] b.t = "inf"                -> b
      [] OTHER                      -> Rat(a.n * b.d + b.n * a.d, a.d * b.d)

Sub(a, b) == Add(a, Neg(b))

\* the share left as a fraction of 1, not multiplied by 100
Times100_Fraction(a) == a

\* a * 100
Times100(a) == IF a.t = "fin" THEN Rat(a.n * 100, a.d) ELSE a

\* Series.sum(): 0 for an empty series
RECURSIVE SumVals(_)
SumVals(col) ==
    IF Len(col) = 0 THEN Zero
    ELSE Add(SumVals(SubSeq(col, 1, Len(col) - 1)), col[Len(col)])

\* the characters in code-point order
CodeOrder ==
    <<" ", "$", ",", "-", ".", "/",
      "0", "1", "2", "3", "4", "5", "6", "7", "8", "9",
      "A", "B", "C", "D", "E", "F", "G", "H", "I", "J", "K", "L", "M",
      "N", "O", "P", "Q", "R", "S", "T", "U", "V", "W", "X", "Y", "Z", "_",
      "a", "b", "c", "d", "e", "f", "g", "h", "i", "j", "k", "l", "m",
      "n", "o", "p", "q", "r", "s", "t", "u", "v", "w", "x", "y", "z",
      "Ñ", "ñ", "₡">>
CharCode(c) == CHOOSE i \in 1..Len(CodeOrder) : CodeOrder[i] = c

\* a < b for text, as Python compares str
RECURSIVE TextLess(_, _)
TextLess(a, b) ==
    IF b = <<>> THEN FALSE
    ELSE IF a = <<>> THEN TRUE
    ELSE IF a[1] = b[1] THEN TextLess(Tail(a), Tail(b))
    ELSE CharCode(a[1]) < CharCode(b[1])

\* the text cells of S in ascending order
RECURSIVE SortedKeys(_)
SortedKeys(S) ==
    IF S = {} THEN <<>>
    ELSE LET least == CHOOSE k \in S : \A o \in S \ {k} : TextLess(k.s, o.s)
         IN  <<least>> \o SortedKeys(S \ {least})

\* the group keys of df.groupby(dim): the distinct values of the column, nulls
\* dropped, in ascending order
GroupKeys(t, dim) ==
    LET col == Col(t, dim)
    IN  SortedKeys({col[r] : r \in {x \in 1..Len(col) : col[x].t = "str"}})

\* df.groupby(dim)[c].sum() for one key
GroupSum(t, dim, key, c) ==
    LET keys   == Col(t, dim)
        values == Col(t, c)
    IN  SumVals(Pick(values, {r \in Positions(values) : keys[r] = key}))

(***************************************************************************)
(* agg_monthly, analytics.py:20-28 (the same body as app.py:544-547).  The *)
(* year and month columns hold int64 after etl_clean derived them from the *)
(* date (data.py:168-169); a table read without a date column keeps what   *)
(* the file held, here whole numbers (int64) or text.                      *)
(***************************************************************************)
FECHA_MENSUAL == <<"F", "e", "c", "h", "a">>

\* the order groupby sorts one key column in
KeyLess(a, b) ==
    IF a.t = "str" /\ b.t = "str" THEN TextLess(a.s, b.s) ELSE a.n * b.d < b.n * a.d

\* groupby(["AÑO", "MES_NUM"]) orders the pairs by year, then by month
PairLess(p, q) == KeyLess(p[1], q[1]) \/ (p[1] = q[1] /\ KeyLess(p[2], q[2]))

RECURSIVE SortedPairs(_)
SortedPairs(S) ==
    IF S = {} THEN <<>>
    ELSE LET least == CHOOSE p \in S : \A q \in S \ {p} : PairLess(p, q)
         IN  <<least>> \o SortedPairs(S \ {least})

\* the groups of line 23: the distinct (year, month) pairs, a row with a null
\* key left out
MonthlyKeys(t) ==
    LET Keyed(r) == /\ At(t, t.rows[r], ANIO).t \in {"str", "fin"}
                    /\ At(t, t.rows[r], MES_NUM).t \in {"str", "fin"}
    IN  SortedPairs({<<At(t, t.rows[r], ANIO), At(t, t.rows[r], MES_NUM)>> :
                        r \in {x \in Positions(t.rows) : Keyed(x)}})

\* line 23: ["CANTIDAD"].sum() of one group
MonthlySum(t, p) ==
    SumVals(Pick(Col(t, CANTIDAD),
                 {r \in Positions(t.rows) :
                     At(t, t.rows[r], ANIO) = p[1] /\ At(t, t.rows[r], MES_NUM) = p[2]}))

\* line 25: .astype(str) of a key: an int64 prints without a decimal point
KeyText(c) == IF c.t = "fin" /\ c.d = 1 THEN IntStr(c.n) ELSE AsTypeStr(c)

\* lines 24-27: pd.to_datetime(year + "-" + month + "-01", errors="coerce")
MonthlyDate(p) ==
    ToDatetimeYearMonth(KeyText(p[1]) \o <<"-">> \o KeyText(p[2]) \o <<"-", "0", "1">>)

\* agg_monthly with the volume of a group being the number of its rows
agg_monthly_Count(t) ==
    LET keys == MonthlyKeys(t)
        Size(p) == Fin(Cardinality({r \in Positions(t.rows) :
                          At(t, t.rows[r], ANIO) = p[1] /\ At(t, t.rows[r], MES_NUM) = p[2]}), 1)
        grouped == [hdr  |-> <<ANIO, MES_NUM, CANTIDAD, FECHA_MENSUAL>>,
                    idx  |-> RangeIndex(Len(keys)),
                    rows |-> [g \in 1..Len(keys) |->
                                <<keys[g][1], keys[g][2], Size(keys[g]), MonthlyDate(keys[g])>>]]
    IN  FilterRows(grouped, {g \in 1..Len(keys) : grouped.rows[g][4].t = "date"})

agg_monthly(t) ==
    LET keys == MonthlyKeys(t)
        grouped == [hdr  |-> <<ANIO, MES_NUM, CANTIDAD, FECHA_MENSUAL>>,
                    idx  |-> RangeIndex(Len(keys)),
                    rows |-> [g \in 1..Len(keys) |->
                                <<keys[g][1], keys[g][2], MonthlySum(t, keys[g]), MonthlyDate(keys[g])>>]]
    IN  FilterRows(grouped, {g \in 1..Len(keys) : grouped.rows[g][4].t = "date"})

(***************************************************************************)
(* top_share, analytics.py:31-37 (the same body as app.py:550-555)         *)
(***************************************************************************)
SHARE == <<"S", "h", "a", "r", "e">>

\* the sort with ascending=True
SortsBefore_Ascending(a, b) == Geq(b, a)

\* sort_values(ascending=False) puts a before b: NaN goes last
SortsBefore(a, b) == b.t = "nan" \/ (a.t # "nan" /\ Geq(a, b))

\* the orders sort_values(ascending=False) may leave the k sums in: every order
\* that is descending (the sort is not stable, so ties may land either way)
DescendingOrders(sums) ==
    LET k == Len(sums)
    IN  {p \in [1..k -> 1..k] :
            /\ \A i, j \in 1..k : i # j => p[i] # p[j]
            /\ \A i \in 1..(k - 1) : SortsBefore(sums[p[i]], sums[p[i + 1]])}

\* top_share with the denominator taken before head(top_n)
top_share_FullDenominator(t, dim, top_n, order) ==
    LET keys  == GroupKeys(t, dim)
        sums  == [g \in 1..Len(keys) |-> GroupSum(t, dim, keys[g], CANTIDAD)]
        shown == IF top_n < Len(keys) THEN top_n ELSE Len(keys)
        head  == [i \in 1..shown |-> order[i]]
        denom == SumVals(sums)
        Share(v) == IF IsZero(denom) THEN Zero ELSE Times100(Div(v, denom))
    IN  [hdr  |-> <<dim, CANTIDAD, SHARE>>,
         idx  |-> RangeIndex(shown),
         rows |-> [i \in 1..shown |-> <<keys[head[i]], sums[head[i]], Share(sums[head[i]])>>]]

\* order: the order the sort left the groups in
top_share(t, dim, top_n, order) ==
    LET keys  == GroupKeys(t, dim)
        sums  == [g \in 1..Len(keys) |-> GroupSum(t, dim, keys[g], CANTIDAD)]
        shown == IF top_n < Len(keys) THEN top_n ELSE Len(keys)
        head  == [i \in 1..shown |-> order[i]]
        denom == SumVals([i \in 1..shown |-> sums[head[i]]])
        Share(v) == IF IsZero(denom) THEN Zero ELSE Times100(Div(v, denom))
    IN  [hdr  |-> <<dim, CANTIDAD, SHARE>>,
         idx  |-> RangeIndex(shown),
         rows |-> [i \in 1..shown |-> <<keys[head[i]], sums[head[i]], Share(sums[head[i]])>>]]

(***************************************************************************)
(* yoy_table, analytics.py:59-121 (the same body as app.py:569-606)        *)
(***************************************************************************)
VOL_ACTUAL   == <<"V", "o", "l", "_", "A", "c", "t", "u", "a", "l">>
CIF_ACTUAL   == <<"C", "I", "F", "_", "A", "c", "t", "u", "a", "l">>
SHARE_ACTUAL == <<"S", "h", "a", "r", "e", "_", "A", "c", "t", "u", "a", "l">>
VOL_PREV     == <<"V", "o", "l", "_", "P", "r", "e", "v">>
CIF_PREV     == <<"C", "I", "F", "_", "P", "r", "e", "v">>
SHARE_PREV   == <<"S", "h", "a", "r", "e", "_", "P", "r", "e", "v">>
DELTA_SHARE  == <<"Δ", " ", "S", "h", "a", "r", "e", " ", "(", "p", "p", ")">>
DELTA_INV    == <<"Δ", " ", "I", "n", "v", "e", "r", "s", "i", "ó", "n", " ", "(", "$", ")">>
ESTADO       == <<"E", "s", "t", "a", "d", "o">>
\* the two status texts of line 119, without their leading pictograph
GANO         == Str(<<"G", "a", "n", "ó">>)
PERDIO       == Str(<<"P", "e", "r", "d", "i", "ó">>)

SetMax(S) == CHOOSE x \in S : \A y \in S : y <= x

\* df[df["AÑO"] == y]
YearSlice(t, y) ==
    LET InYear(row) == At(t, row, ANIO) = Fin(y, 1)
    IN  FilterRows(t, {r \in Positions(t.rows) : InYear(t.rows[r])})

\* lines 91-94 and 103-106 (97-100 and 108-111): one slice grouped, <<key, volume,
\* value, share>> per key, the share relative to the slice's own total
GroupSlice(t, dim) ==
    LET keys  == GroupKeys(t, dim)
        vols  == [g \in 1..Len(keys) |-> GroupSum(t, dim, keys[g], CANTIDAD)]
        cifs  == [g \in 1..Len(keys) |-> GroupSum(t, dim, keys[g], VALOR_CIF)]
        total == SumVals(vols)
        positive == Geq(total, Zero) /\ ~IsZero(total)
    IN  [g \in 1..Len(keys) |->
            <<keys[g], vols[g], cifs[g],
              IF positive THEN Times100(Div(vols[g], total)) ELSE Zero>>]

\* line 114 with how="inner": the keys of both sides
MergeKeys_Inner(curr, prev) ==
    SortedKeys({curr[g][1] : g \in 1..Len(curr)} \cap {prev[g][1] : g \in 1..Len(prev)})

\* line 114, how="outer": the keys of either side, in ascending order
MergeKeys(curr, prev) ==
    SortedKeys({curr[g][1] : g \in 1..Len(curr)} \cup {prev[g][1] : g \in 1..Len(prev)})

\* line 114: pd.merge(grp_curr, grp_prev, on=dim_col, how="outer").fillna(0), and
\* lines 117-119: the deltas and the status
MergeOuter(curr, prev, dim) ==
    LET keys == MergeKeys(curr, prev)
        Side(grp, key, f) ==
            IF \E g \in 1..Len(grp) : grp[g][1] = key
            THEN grp[CHOOSE g \in 1..Len(grp) : grp[g][1] = key][f]
            ELSE NaN
        Line(key) ==
            LET va == FillNa0(Side(curr, key, 2))
                ca == FillNa0(Side(curr, key, 3))
                sa == FillNa0(Side(curr, key, 4))
                vp == FillNa0(Side(prev, key, 2))
                cp == FillNa0(Side(prev, key, 3))
                sp == FillNa0(Side(prev, key, 4))
                ds == Sub(sa, sp)
            IN  <<key, va, ca, sa, vp, cp, sp, ds, Sub(ca, cp),
                  IF Geq(ds, Zero) THEN GANO ELSE PERDIO>>
    IN  [hdr  |-> <<dim, VOL_ACTUAL, CIF_ACTUAL, SHARE_ACTUAL, VOL_PREV, CIF_PREV,
                    SHARE_PREV, DELTA_SHARE, DELTA_INV, ESTADO>>,
         idx  |-> RangeIndex(Len(keys)),
         rows |-> [i \in 1..Len(keys) |-> Line(keys[i])]]

\* yoy_table without the guard of lines 87-88 on two empty slices
yoy_table_NoEmptyGuard(main, view, dim_col, sel) ==
    IF Cardinality(sel) < 2 THEN [none |-> TRUE, df |-> NoTable]
    ELSE LET curr_y  == SetMax(sel)
             prev_y  == curr_y - 1
             df_curr == YearSlice(view, curr_y)
             df_prev == YearSlice(main, prev_y)
         IN  [none |-> FALSE,
              df   |-> MergeOuter(GroupSlice(df_curr, dim_col),
                                  GroupSlice(df_prev, dim_col), dim_col)]

\* yoy_table with the previous year taken as the largest selected year below
\* the current one, not as the current year minus 1
yoy_table_PrevSelected(main, view, dim_col, sel) ==
    IF Cardinality(sel) < 2 THEN [none |-> TRUE, df |-> NoTable]
    ELSE LET curr_y  == SetMax(sel)
             prev_y  == SetMax(sel \ {curr_y})
             df_curr == YearSlice(view, curr_y)
             df_prev == YearSlice(main, prev_y)
         IN  IF Len(df_curr.rows) = 0 /\ Len(df_prev.rows) = 0
             THEN [none |-> TRUE, df |-> NoTable]
             ELSE [none |-> FALSE,
                   df   |-> MergeOuter(GroupSlice(df_curr, dim_col),
                                       GroupSlice(df_prev, dim_col), dim_col)]

\* [none, df]: none is TRUE when the function returns None
yoy_table(main, view, dim_col, sel) ==
    IF Cardinality(sel) < 2 THEN [none |-> TRUE, df |-> NoTable]
    ELSE LET curr_y  == SetMax(sel)
             prev_y  == curr_y - 1
             df_curr == YearSlice(view, curr_y)
             df_prev == YearSlice(main, prev_y)
         IN  IF Len(df_curr.rows) = 0 /\ Len(df_prev.rows) = 0
             THEN [none |-> TRUE, df |-> NoTable]
             ELSE [none |-> FALSE,
                   df   |-> MergeOuter(GroupSlice(df_curr, dim_col),
                                       GroupSlice(df_prev, dim_col), dim_col)]

\* page_macro, app.py:710: df_view = df_main[df_main["AÑO"].isin(sel_years)]
YearsView(t, sel) ==
    LET Selected(row) == \E y \in sel : At(t, row, ANIO) = Fin(y, 1)
    IN  FilterRows(t, {r \in Positions(t.rows) : Selected(t.rows[r])})

(***************************************************************************)
(* SpecNum: one raw cell of a designated numeric column goes through       *)
(* to_number_series, and the result through to_number_series again.        *)
(***************************************************************************)
NumAlphabet == {"0", "1", ".", ",", "$", "-", "a", " "}

RECURSIVE StringsOver(_, _)
StringsOver(A, k) ==
    IF k = 0 THEN {<<>>}
    ELSE LET shorter == StringsOver(A, k - 1)
         IN  shorter \cup {Append(s, c) : s \in {x \in shorter : Len(x) = k - 1}, c \in A}

\* the cells the specification names
ScenarioCells ==
    { <<"$", "1", "2", ",", "3", "4", "5">>,
      <<"a", "b", "c">>,
      <<"1", "2", ".", "3", "4">>,
      <<"1", "2", ",", "5">>,
      <<"1", "2", ".", "3", "4", "5">>,
      <<"₡", "1", ",", "0", "0", "0">>,
      <<"i", "n", "f">> }

NumCells == {Str(s) : s \in StringsOver(NumAlphabet, MaxLen) \cup ScenarioCells}
              \cup {None}

\* every variable of the table pipeline before anything ran
TableIdle ==
    /\ raw = NoTable
    /\ df = NoTable
    /\ ultima_fecha = None
    /\ df2 = NoTable
    /\ ultima2 = None
    /\ time_view = "FULL"
    /\ df_main = NoTable
    /\ raised = ""

\* the result of ensure_required_columns before it ran
ReqIdle ==
    /\ df_req = NoTable
    /\ missing = <<>>

\* the session and the load before anything ran
SessIdle ==
    /\ session = [time_view |-> "ABSENT", uploaded_parquet |-> "ABSENT", data_url |-> "ABSENT",
                  last_error |-> "ABSENT"]
    /\ env = [local |-> "absent", secret_url |-> ""]
    /\ loaded = [none |-> TRUE, tag |-> ""]
    /\ pdf_dataset = NoTable

\* every variable of the aggregation engine before anything ran
AggIdle ==
    /\ sel_years = {}
    /\ df_view = NoTable
    /\ top_count = 0
    /\ top = NoTable
    /\ yoy = [none |-> TRUE, df |-> NoTable]
    /\ monthly = NoTable

InitNum ==
    /\ pc = "cell"
    /\ cell \in NumCells
    /\ num = None
    /\ num2 = None
    /\ TableIdle
    /\ AggIdle
    /\ ReqIdle
    /\ SessIdle

Coerce ==
    /\ pc = "cell"
    /\ num' = to_number_series(<<cell>>)[1]
    /\ pc' = "coerced"
    /\ UNCHANGED <<cell, num2, etlVars, viewVars, aggVars, reqVars, sessVars>>

Recoerce ==
    /\ pc = "coerced"
    /\ num2' = to_number_series(<<num>>)[1]
    /\ pc' = "recoerced"
    /\ UNCHANGED <<cell, num, etlVars, viewVars, aggVars, reqVars, sessVars>>

NextNum == Coerce \/ Recoerce

vars == <<pc, numVars, etlVars, viewVars, aggVars, reqVars, sessVars>>

SpecNum == InitNum /\ [][NextNum]_vars

(***************************************************************************)
(* SpecEtl: a raw table goes through etl_clean; the canonical table then   *)
(* goes through etl_clean again, or through apply_time_view.               *)
(***************************************************************************)
RECURSIVE SeqsUpTo(_, _)
SeqsUpTo(S, k) ==
    IF k = 0 THEN {<<>>}
    ELSE LET shorter == SeqsUpTo(S, k - 1)
         IN  shorter \cup {Append(s, x) : s \in {y \in shorter : Len(y) = k - 1}, x \in S}

\* raw headers: aliases in other casing and spacing; a table with no date
\* column and freight for customs value
EtlHeaders ==
    { <<<<" ", "f", "e", "c", "h", "a">>,
        <<"c", "a", "n", "t", "i", "d", "a", "d", " ">>, <<"c", "i", "f">>>>,
      <<<<"D", "I", "A">>, CANTIDAD, <<"f", "l", "e", "t", "e", "_", "u", "s", "d">>>> }

EtlDates ==
    { Str(<<"2", "0", "2", "4", "-", "0", "1", "-", "1", "0">>),
      Date(2024, 3, 5),
      Str(<<"s", "/", "f">>) }
EtlQuantities == { Str(<<"0">>), Str(<<"-", "1">>), Str(<<"2">>) }
EtlValues == { Str(<<"$", "1", ",", "5", "0", "0">>), Str(<<".", "1", "2", "5">>),
               Str(<<"i", "n", "f">>) }

EtlRows == {<<f, q, v>> : f \in EtlDates, q \in EtlQuantities, v \in EtlValues}

\* the tables read from a source: every header over every sequence of rows
RawTables(headers, rowSet) ==
    {[hdr |-> h, idx |-> RangeIndex(Len(rs)), rows |-> rs] :
        h \in headers, rs \in SeqsUpTo(rowSet, MaxRows)}

EtlTables == RawTables(EtlHeaders, EtlRows)

InitEtl ==
    /\ pc = "raw"
    /\ raw \in EtlTables
    /\ df = NoTable /\ ultima_fecha = None
    /\ df2 = NoTable /\ ultima2 = None
    /\ time_view = "FULL" /\ df_main = NoTable /\ raised = ""
    /\ cell = None /\ num = None /\ num2 = None
    /\ AggIdle
    /\ ReqIdle
    /\ SessIdle

\* load_data_flow's "df, ultima = etl_clean(df0)"
EtlClean ==
    /\ pc = "raw"
    /\ LET r == etl_clean(raw)
       IN  df' = r.df /\ ultima_fecha' = r.ultima
    /\ pc' = "clean"
    /\ UNCHANGED <<raw, df2, ultima2, numVars, viewVars, aggVars, reqVars, sessVars>>

\* etl_clean applied to the canonical table it returned
Reclean ==
    /\ pc = "clean"
    /\ LET r == etl_clean(df)
       IN  df2' = r.df /\ ultima2' = r.ultima
    /\ pc' = "recleaned"
    /\ UNCHANGED <<raw, df, ultima_fecha, numVars, viewVars, aggVars, reqVars, sessVars>>

\* apply_time_view(df, ultima_fecha, tv) on what etl_clean returned, under either
\* mode (main's "df_main = apply_time_view(df_raw, ultima_fecha)", app.py:1126)
ApplyTimeView(tv) ==
    /\ pc = "clean"
    /\ LET r == apply_time_view(df, ultima_fecha, tv)
       IN  df_main' = r.df /\ raised' = r.raised
    /\ time_view' = tv
    /\ pc' = "viewed"
    /\ UNCHANGED <<etlVars, numVars, aggVars, reqVars, sessVars>>

NextEtl ==
    \/ EtlClean
    \/ Reclean
    \/ \E tv \in {"FULL", "YTD"} : ApplyTimeView(tv)

SpecEtl == InitEtl /\ [][NextEtl]_vars

(***************************************************************************)
(* SpecBrand: a raw table of brands and quantities goes through etl_clean  *)
(* (and on, like SpecEtl).                                                 *)
(***************************************************************************)
BrandHeaders == { << <<"M", "a", "r", "c", "a", " ">>, <<"c", "a", "n", "t", "i", "d", "a", "d">> >> }

BrandCells ==
    { Str(<<"M", ".", "G", ".">>),
      Str(<<" ", "m", "o", "r", "r", "i", "s", " ", "g", "a", "r", "a", "g", "e", "s", " ">>),
      Str(<<"M", "G">>),
      Str(<<"B", "y", "d", " ", "A", "u", "t", "o">>),
      Str(<<"B", "Y", "D">>),
      Str(<<"g", "w", "m">>),
      Str(<<"m", "b">>),
      Str(<<"k", "i", "a">>),
      None }
BrandQuantities == { Str(<<"1">>), Str(<<"2">>), Str(<<"-", "1">>) }

BrandRows == {<<b, q>> : b \in BrandCells, q \in BrandQuantities}

BrandTables == RawTables(BrandHeaders, BrandRows)

InitBrand ==
    /\ pc = "raw"
    /\ raw \in BrandTables
    /\ df = NoTable /\ ultima_fecha = None
    /\ df2 = NoTable /\ ultima2 = None
    /\ time_view = "FULL" /\ df_main = NoTable /\ raised = ""
    /\ cell = None /\ num = None /\ num2 = None
    /\ AggIdle
    /\ ReqIdle
    /\ SessIdle

SpecBrand == InitBrand /\ [][NextEtl]_vars

(***************************************************************************)
(* SpecText: a raw table of two text columns goes through etl_clean (and   *)
(* on, like SpecEtl).  A missing cell is None or NaN, the two ways pandas   *)
(* holds a missing value in an object column.                              *)
(***************************************************************************)
TextHeaders == { << <<"m", "a", "r", "c", "a">>, <<" ", "M", "o", "d", "e", "l", "o">> >> }

TextCells ==
    { Str(<<" ", "m", ".", "g", ".", " ">>),
      Str(<<"s", "u", "v">>),
      Str(<<>>),
      None,
      NaN }

TextRows == {<<b, m>> : b \in TextCells, m \in TextCells}

TextTables == RawTables(TextHeaders, TextRows)

InitText ==
    /\ pc = "raw"
    /\ raw \in TextTables
    /\ df = NoTable /\ ultima_fecha = None
    /\ df2 = NoTable /\ ultima2 = None
    /\ time_view = "FULL" /\ df_main = NoTable /\ raised = ""
    /\ cell = None /\ num = None /\ num2 = None
    /\ AggIdle
    /\ ReqIdle
    /\ SessIdle

SpecText == InitText /\ [][NextEtl]_vars

(***************************************************************************)
(* SpecLoad: main's path from the raw table to the windowed table:         *)
(* etl_clean, ensure_required_columns, the stop on a missing column, and   *)
(* apply_time_view.  The raw tables have a date column, or year and month  *)
(* columns instead, or lack required columns.                              *)
(***************************************************************************)
LoadYears  == { Str(<<"2", "0", "2", "3">>), Fin(2024, 1) }
LoadMonths == { Str(<<"3">>), Fin(11, 1), Str(<<"x">>) }
LoadDates  == { Str(<<"2", "0", "2", "4", "-", "0", "2", "-", "2", "0">>), Str(<<"s", "/", "f">>) }
LoadQuantity == Str(<<"1">>)
LoadValue    == Str(<<"1", "0">>)
LoadBrand    == Str(<<"M", "G">>)

\* year and month columns and no date column, every other required column there
YearMonthTables ==
    RawTables({<< <<"a", "n", "i", "o">>, <<"m", "e", "s", "_", "n", "u", "m">>,
                  CANTIDAD, <<"c", "i", "f">>, MARCA >>},
              {<<y, m, LoadQuantity, LoadValue, LoadBrand>> : y \in LoadYears, m \in LoadMonths})

\* year and month columns, no date column, and two required columns missing
YearMonthOnlyTables ==
    RawTables({<< ANIO, MES_NUM, CANTIDAD >>},
              {<<y, m, LoadQuantity>> : y \in LoadYears, m \in LoadMonths})

\* every required column
DatedTables ==
    RawTables({<< FECHA, CANTIDAD, <<"c", "i", "f">>, MARCA >>},
              {<<f, LoadQuantity, LoadValue, LoadBrand>> : f \in LoadDates})

\* neither a date nor year and month
UndatedTables ==
    RawTables({<< ANIO, CANTIDAD, MARCA >>},
              {<<y, LoadQuantity, LoadBrand>> : y \in LoadYears})

LoadTables == YearMonthTables \cup YearMonthOnlyTables \cup DatedTables \cup UndatedTables

InitLoad ==
    /\ pc = "raw"
    /\ raw \in LoadTables
    /\ df = NoTable /\ ultima_fecha = None
    /\ df2 = NoTable /\ ultima2 = None
    /\ time_view = "FULL" /\ df_main = NoTable /\ raised = ""
    /\ cell = None /\ num = None /\ num2 = None
    /\ AggIdle
    /\ ReqIdle
    /\ SessIdle

\* ensure_required_columns adding the date column to the caller's table, as
\* without the df.copy() of data.py:133
EnsureRequired_InPlace ==
    /\ pc = "clean"
    /\ LET r == ensure_required_columns(df)
       IN  df_req' = r.df /\ missing' = r.missing /\ df' = r.df
    /\ pc' = "ensured"
    /\ UNCHANGED <<raw, ultima_fecha, df2, ultima2, numVars, viewVars, aggVars, sessVars>>

\* main, app.py:1116: df_raw, missing = ensure_required_columns(df_raw)
EnsureRequired ==
    /\ pc = "clean"
    /\ LET r == ensure_required_columns(df)
       IN  df_req' = r.df /\ missing' = r.missing
    /\ pc' = "ensured"
    /\ UNCHANGED <<etlVars, numVars, viewVars, aggVars, sessVars>>

\* main, app.py:1117-1123: if missing: ... st.stop()
StopMissing ==
    /\ pc = "ensured"
    /\ missing # <<>>
    /\ pc' = "stopped"
    /\ UNCHANGED <<etlVars, numVars, viewVars, aggVars, reqVars, sessVars>>

\* main, app.py:1126: df_main = apply_time_view(df_raw, ultima_fecha), under the
\* mode of the session
ViewRequired(tv) ==
    /\ pc = "ensured"
    /\ missing = <<>>
    /\ LET r == apply_time_view(df_req, ultima_fecha, tv)
       IN  df_main' = r.df /\ raised' = r.raised
    /\ time_view' = tv
    /\ pc' = "viewed"
    /\ UNCHANGED <<etlVars, numVars, aggVars, reqVars, sessVars>>

NextLoad ==
    \/ EtlClean
    \/ EnsureRequired
    \/ StopMissing
    \/ \E tv \in {"FULL", "YTD"} : ViewRequired(tv)

SpecLoad == InitLoad /\ [][NextLoad]_vars

(***************************************************************************)
(* SpecCols: canonicalize_columns is applied to a table whose column names *)
(* are aliases in other casing and spacing, canonical names and names the  *)
(* alias table does not know, and then applied again to its own result, as *)
(* etl_clean does when it is handed a table it has already cleaned.        *)
(***************************************************************************)
MaxCols == 2    \* most columns of a table of SpecCols

ColNames ==
    { <<"a", "n", "o">>,
      <<" ", "A", "n", "i", "o", " ">>,
      ANIO,
      <<"a", "ñ", "o">>,
      <<"v", "a", "l", "o", "r", " ", " ", "u", "s", "d", " ", "c", "i", "f">>,
      <<"V", "a", "l", "o", "r", "_", "U", "s", "d", "_", "C", "i", "f">>,
      <<"c", "i", "f">>,
      <<"f", "l", "e", "t", "e", "_", "u", "s", "d">>,
      <<"F", "e", "c", "h", "a", "\t">>,
      MARCA,
      <<"c", "o", "l", "o", "r">>,
      <<" ", "T", "i", "p", "o", " ", "\t", "d", "e", " ", " ">> }

ColHeaders == SeqsUpTo(ColNames, MaxCols) \ {<<>>}

ColTables ==
    {[hdr |-> h, idx |-> RangeIndex(n), rows |-> [r \in 1..n |-> [c \in 1..Len(h) |-> Str(<<"x">>)]]] :
        h \in ColHeaders, n \in 0..1}

InitCols ==
    /\ pc = "raw"
    /\ raw \in ColTables
    /\ df = NoTable /\ ultima_fecha = None
    /\ df2 = NoTable /\ ultima2 = None
    /\ time_view = "FULL" /\ df_main = NoTable /\ raised = ""
    /\ cell = None /\ num = None /\ num2 = None
    /\ AggIdle
    /\ ReqIdle
    /\ SessIdle

\* data.py:147, df = canonicalize_columns(df)
Canonicalize ==
    /\ pc = "raw"
    /\ df' = canonicalize_columns(raw)
    /\ pc' = "canon"
    /\ UNCHANGED <<raw, ultima_fecha, df2, ultima2, numVars, viewVars, aggVars, reqVars, sessVars>>

\* data.py:147 again, on the table the first call returned
Recanonicalize ==
    /\ pc = "canon"
    /\ df2' = canonicalize_columns(df)
    /\ pc' = "recanon"
    /\ UNCHANGED <<raw, df, ultima_fecha, ultima2, numVars, viewVars, aggVars, reqVars, sessVars>>

NextCols == Canonicalize \/ Recanonicalize

SpecCols == InitCols /\ [][NextCols]_vars

(***************************************************************************)
(* SpecMonthly: main up to the monthly series of page_macro.  The table    *)
(* read has a date column, or it has year and month columns of whole       *)
(* numbers and no date column, a month number outside 1..12 among them;    *)
(* it goes through etl_clean, ensure_required_columns and apply_time_view, *)
(* then page_macro restricts it to the years selected among those it holds *)
(* and hands it to agg_monthly.                                            *)
(***************************************************************************)
MonthlyYears  == { Fin(2023, 1), Fin(2024, 1) }
MonthlyMonths == { Fin(3, 1), Fin(13, 1) }
MonthlyDates  ==
    { Str(<<"2", "0", "2", "3", "-", "0", "3", "-", "1", "0">>),
      Str(<<"2", "0", "2", "4", "-", "0", "2", "-", "2", "0">>) }
MonthlyQuantities == { Str(<<"1">>), Str(<<"3">>) }

MonthlyTables ==
    RawTables({<< <<"a", "n", "i", "o">>, <<"m", "e", "s", "_", "n", "u", "m">>,
                  CANTIDAD, <<"c", "i", "f">>, MARCA >>},
              {<<y, m, q, LoadValue, LoadBrand>> :
                  y \in MonthlyYears, m \in MonthlyMonths, q \in MonthlyQuantities})
    \cup
    RawTables({<< FECHA, CANTIDAD, <<"c", "i", "f">>, MARCA >>},
              {<<f, q, LoadValue, LoadBrand>> : f \in MonthlyDates, q \in MonthlyQuantities})

InitMonthly ==
    /\ pc = "raw"
    /\ raw \in MonthlyTables
    /\ df = NoTable /\ ultima_fecha = None
    /\ df2 = NoTable /\ ultima2 = None
    /\ time_view = "FULL" /\ df_main = NoTable /\ raised = ""
    /\ cell = None /\ num = None /\ num2 = None
    /\ AggIdle
    /\ ReqIdle
    /\ SessIdle

\* page_macro, app.py:702: years_avail = sorted(df_main["AÑO"].unique(), ...)
YearsAvailable(t) == {At(t, t.rows[r], ANIO).n : r \in Positions(t.rows)}

\* page_macro, app.py:704-727: a selection of available years, none selected
\* returning before line 710; df_view of line 710; monthly = agg_monthly(df_view)
AggMonthly(sel) ==
    /\ pc = "viewed"
    /\ raised = ""
    /\ sel # {}
    /\ sel \subseteq YearsAvailable(df_main)
    /\ df_view' = YearsView(df_main, sel)
    /\ monthly' = agg_monthly(YearsView(df_main, sel))
    /\ sel_years' = sel
    /\ pc' = "monthly"
    /\ UNCHANGED <<top, top_count, yoy, etlVars, viewVars, numVars, reqVars, sessVars>>

NextMonthly ==
    \/ EtlClean
    \/ EnsureRequired
    \/ \E tv \in {"FULL", "YTD"} : ViewRequired(tv)
    \/ \E sel \in SUBSET {y.n : y \in MonthlyYears} : AggMonthly(sel)

SpecMonthly == InitMonthly /\ [][NextMonthly]_vars

(***************************************************************************)
(* SpecAgg: a raw table with dates in two years goes through etl_clean and *)
(* apply_time_view; page_macro then computes top_share and yoy_table on    *)
(* the windowed table.                                                     *)
(***************************************************************************)
MaxTop == 2     \* largest top_n passed to top_share

YearChoices == {2023, 2024, 2025}

AggHeaders == { <<FECHA, MARCA, CANTIDAD, <<"c", "i", "f">> >> }

AggDates ==
    { Str(<<"2", "0", "2", "3", "-", "0", "1", "-", "1", "5">>),
      Str(<<"2", "0", "2", "3", "-", "0", "3", "-", "1", "0">>),
      Str(<<"2", "0", "2", "4", "-", "0", "2", "-", "2", "0">>) }
AggBrands == { Str(<<"M", ".", "G", ".">>), Str(<<"b", "y", "d">>) }
AggQuantities == { Str(<<"0">>), Str(<<"1">>), Str(<<"3">>) }
AggValues == { Str(<<"1", "0">>) }

AggRows ==
    {<<f, b, q, v>> : f \in AggDates, b \in AggBrands, q \in AggQuantities, v \in AggValues}

AggTables == RawTables(AggHeaders, AggRows)

InitAgg ==
    /\ pc = "raw"
    /\ raw \in AggTables
    /\ df = NoTable /\ ultima_fecha = None
    /\ df2 = NoTable /\ ultima2 = None
    /\ time_view = "FULL" /\ df_main = NoTable /\ raised = ""
    /\ cell = None /\ num = None /\ num2 = None
    /\ AggIdle
    /\ ReqIdle
    /\ SessIdle

\* page_macro, app.py:776: top_share(df_view, dim="MARCA", top_n=15), here with
\* every top_n up to MaxTop and every selection of years
TopShare(sel, n) ==
    /\ pc = "viewed"
    /\ raised = ""
    /\ LET view == YearsView(df_main, sel)
           keys == GroupKeys(view, MARCA)
           sums == [g \in 1..Len(keys) |-> GroupSum(view, MARCA, keys[g], CANTIDAD)]
       IN  /\ df_view' = view
           /\ \E order \in DescendingOrders(sums) : top' = top_share(view, MARCA, n, order)
    /\ sel_years' = sel
    /\ top_count' = n
    /\ pc' = "top"
    /\ UNCHANGED <<yoy, monthly, etlVars, viewVars, numVars, reqVars, sessVars>>

\* page_macro, app.py:798: yoy_table(df_main, df_view, dim_col, sel_years), here
\* with every selection of years
YoY(sel) ==
    /\ pc = "viewed"
    /\ raised = ""
    /\ LET view == YearsView(df_main, sel)
       IN  /\ df_view' = view
           /\ yoy' = yoy_table(df_main, view, MARCA, sel)
    /\ sel_years' = sel
    /\ pc' = "yoy"
    /\ UNCHANGED <<top, top_count, monthly, etlVars, viewVars, numVars, reqVars, sessVars>>

NextAgg ==
    \/ EtlClean
    \/ \E tv \in {"FULL", "YTD"} : ApplyTimeView(tv)
    \/ \E sel \in SUBSET YearChoices, n \in 1..MaxTop : TopShare(sel, n)
    \/ \E sel \in SUBSET YearChoices : YoY(sel)

SpecAgg == InitAgg /\ [][NextAgg]_vars

(***************************************************************************)
(* SpecFrame: one table goes through every consumer of the canonical       *)
(* table: etl_clean (and canonicalize_columns in it), ensure_required_     *)
(* columns, apply_time_view, and then agg_monthly, top_share and yoy_table *)
(* any number of times in any order, as page_macro runs them on each rerun *)
(* of the script.                                                          *)
(***************************************************************************)
FrameTables ==
    {[hdr |-> << FECHA, CANTIDAD, <<"c", "i", "f">>, MARCA >>, idx |-> RangeIndex(Len(rs)), rows |-> rs] :
        rs \in SeqsUpTo({ <<Str(<<"2", "0", "2", "3", "-", "0", "3", "-", "1", "0">>),
                            Str(<<"1">>), LoadValue, Str(<<"b", "y", "d">>)>>,
                          <<Str(<<"2", "0", "2", "4", "-", "0", "2", "-", "2", "0">>),
                            Str(<<"3">>), LoadValue, LoadBrand>> }, 2)}
    \cup
    {[hdr |-> << <<"a", "n", "i", "o">>, <<"m", "e", "s", "_", "n", "u", "m">>,
                 CANTIDAD, <<"c", "i", "f">>, MARCA >>,
      idx |-> RangeIndex(Len(rs)), rows |-> rs] :
        rs \in SeqsUpTo({ <<Fin(2023, 1), Fin(3, 1), Str(<<"1">>), LoadValue, LoadBrand>>,
                          <<Fin(2024, 1), Fin(13, 1), Str(<<"3">>), LoadValue, LoadBrand>> }, 2)}

InitFrame ==
    /\ pc = "raw"
    /\ raw \in FrameTables
    /\ df = NoTable /\ ultima_fecha = None
    /\ df2 = NoTable /\ ultima2 = None
    /\ time_view = "FULL" /\ df_main = NoTable /\ raised = ""
    /\ cell = None /\ num = None /\ num2 = None
    /\ AggIdle
    /\ ReqIdle
    /\ SessIdle

\* page_macro goes on to its next aggregation (app.py:727, 776, 798), or the
\* script is rerun on the same canonical table
NextAggregation ==
    /\ pc \in {"monthly", "top", "yoy"}
    /\ pc' = "viewed"
    /\ UNCHANGED <<etlVars, numVars, viewVars, aggVars, reqVars, sessVars>>

NextFrame ==
    \/ EtlClean
    \/ EnsureRequired
    \/ \E tv \in {"FULL", "YTD"} : ViewRequired(tv)
    \/ \E sel \in SUBSET YearChoices : AggMonthly(sel)
    \/ \E sel \in SUBSET YearChoices, n \in 1..MaxTop : TopShare(sel, n)
    \/ \E sel \in SUBSET YearChoices : YoY(sel)
    \/ NextAggregation

SpecFrame == InitFrame /\ [][NextFrame]_vars

(***************************************************************************)
(* The session: init_session_state (app.py:132-151), load_data_flow        *)
(* (app.py:377-426, the same body as data.py:197-247), sidebar_controls    *)
(* (app.py:612-686) and main (app.py:1098-1148).  What a source holds is   *)
(* named by its kind: "bad" cannot be read as parquet, the other kinds are *)
(* the tables of SourceTable.  A URL is named by the kind of what it       *)
(* serves, "" being no URL.  A session key that is not set is "ABSENT"     *)
(* (st.session_state.get then gives None).                                 *)
(***************************************************************************)
TIME_FULL == "FULL"
TIME_YTD  == "YTD"

\* TIME_VIEW_LABELS, app.py:74-77: <<label, value>>
TIME_VIEW_LABELS == { <<"Full Year (Completo)", TIME_FULL>>, <<"YTD (Year to Date)", TIME_YTD>> }

SourceTable(kind) ==
    CASE kind = "good" ->
            [hdr  |-> << FECHA, MARCA, CANTIDAD, <<"c", "i", "f">> >>,
             idx  |-> RangeIndex(2),
             rows |-> << <<Date(2023, 3, 10),
                           Str(<<"b", "y", "d">>), Str(<<"1">>), LoadValue>>,
                         <<Date(2024, 2, 20),
                           LoadBrand, Str(<<"3">>), LoadValue>> >>]
      [] kind = "nobrand" ->
            [hdr  |-> << FECHA, CANTIDAD, <<"c", "i", "f">> >>,
             idx  |-> RangeIndex(1),
             rows |-> << <<Date(2024, 2, 20),
                           Str(<<"3">>), LoadValue>> >>]
      [] kind = "norows" ->
            [hdr |-> << FECHA, MARCA, CANTIDAD, <<"c", "i", "f">> >>, idx |-> <<>>, rows |-> <<>>]
      [] OTHER -> [hdr |-> <<>>, idx |-> <<>>, rows |-> <<>>]

\* init_session_state, app.py:132-151: a key is set only when it is absent
init_session_state_Overwrite(s) ==
    [s EXCEPT !.time_view = TIME_FULL,
              !.data_url = IF @ = "ABSENT" THEN "" ELSE @,
              !.last_error = IF @ = "ABSENT" THEN "" ELSE @]

init_session_state(s) ==
    [s EXCEPT !.time_view = IF @ = "ABSENT" THEN TIME_FULL ELSE @,
              !.data_url = IF @ = "ABSENT" THEN "" ELSE @,
              !.last_error = IF @ = "ABSENT" THEN "" ELSE @]

\* a branch of load_data_flow answering a failed read with an empty table
LoadFrom_EmptyOnError(kind, tag, errTag, message, s) ==
    LET r == etl_clean(SourceTable(IF kind = "bad" THEN "empty" ELSE kind))
    IN  [none |-> FALSE, df |-> r.df, ultima |-> r.ultima,
         tag |-> IF kind = "bad" THEN errTag ELSE tag,
         last_error |-> IF kind = "bad" THEN message ELSE s.last_error]

\* one branch of load_data_flow: read the source and clean it inside try, the
\* except branch recording the message and returning (None, None, error tag)
LoadFrom(kind, tag, errTag, message, s) ==
    IF kind = "bad"
    THEN [none |-> TRUE, df |-> NoTable, ultima |-> None, tag |-> errTag, last_error |-> message]
    ELSE LET r == etl_clean(SourceTable(kind))
         IN  [none |-> FALSE, df |-> r.df, ultima |-> r.ultima, tag |-> tag,
              last_error |-> s.last_error]

\* lines 407-413: the secret first, then the session's data_url
ConfiguredUrl(s, e) ==
    IF e.secret_url # "" THEN e.secret_url
    ELSE IF s.data_url = "ABSENT" THEN "" ELSE s.data_url

\* load_data_flow with the local file tried before the upload
load_data_flow_LocalFirst(s, e) ==
    LET url == ConfiguredUrl(s, e)
    IN  IF e.local # "absent"
        THEN LoadFrom(e.local, "LOCAL", "LOCAL_ERROR", "Error leyendo parquet local", s)
        ELSE IF s.uploaded_parquet # "ABSENT"
        THEN LoadFrom(s.uploaded_parquet, "UPLOAD", "UPLOAD_ERROR", "Error leyendo parquet cargado", s)
        ELSE IF url # ""
        THEN LoadFrom(url, "URL", "URL_ERROR", "Error descargando/leyendo parquet URL", s)
        ELSE [none |-> TRUE, df |-> NoTable, ultima |-> None, tag |-> "NO_DATA",
              last_error |-> s.last_error]

\* load_data_flow falling through to the next source when the one it chose
\* cannot be read
load_data_flow_Fallback(s, e) ==
    LET url == ConfiguredUrl(s, e)
    IN  IF s.uploaded_parquet \notin {"ABSENT", "bad"}
        THEN LoadFrom(s.uploaded_parquet, "UPLOAD", "UPLOAD_ERROR", "Error leyendo parquet cargado", s)
        ELSE IF e.local \notin {"absent", "bad"}
        THEN LoadFrom(e.local, "LOCAL", "LOCAL_ERROR", "Error leyendo parquet local", s)
        ELSE IF url \notin {"", "bad"}
        THEN LoadFrom(url, "URL", "URL_ERROR", "Error descargando/leyendo parquet URL", s)
        ELSE [none |-> TRUE, df |-> NoTable, ultima |-> None, tag |-> "NO_DATA",
              last_error |-> s.last_error]

\* [none, df, ultima, tag, last_error]: none is TRUE when the table returned is
\* None; last_error is the session's last_error after the call
load_data_flow(s, e) ==
    LET url == ConfiguredUrl(s, e)
    IN  IF s.uploaded_parquet # "ABSENT"
        THEN LoadFrom(s.uploaded_parquet, "UPLOAD", "UPLOAD_ERROR", "Error leyendo parquet cargado", s)
        ELSE IF e.local # "absent"
        THEN LoadFrom(e.local, "LOCAL", "LOCAL_ERROR", "Error leyendo parquet local", s)
        ELSE IF url # ""
        THEN LoadFrom(url, "URL", "URL_ERROR", "Error descargando/leyendo parquet URL", s)
        ELSE [none |-> TRUE, df |-> NoTable, ultima |-> None, tag |-> "NO_DATA",
              last_error |-> s.last_error]

(***************************************************************************)
(* SpecSession: runs of main over one session.  Each run initialises the   *)
(* session, loads, draws the sidebar (where the user may upload a file,    *)
(* type a URL, press a theme button or pick a time view, some of which     *)
(* rerun the script at once), stops when there is no table or a required   *)
(* column is missing, else applies the time view, runs the page (the       *)
(* country page, the menu's default) and offers the exports.  A later      *)
(* interaction reruns the script on the same session.                      *)
(***************************************************************************)
TOP_N == 15    \* app.py:776, top_share(df_view, dim="MARCA", top_n=15)

UploadKinds == {"bad", "good", "nobrand", "norows", "empty"}
UrlKinds == {"", "bad", "good"}

InitSession ==
    /\ pc = "start"
    /\ TableIdle
    /\ cell = None /\ num = None /\ num2 = None
    /\ AggIdle
    /\ ReqIdle
    /\ session = [time_view |-> "ABSENT", uploaded_parquet |-> "ABSENT", data_url |-> "ABSENT",
                  last_error |-> "ABSENT"]
    /\ env \in [local : {"absent", "bad", "good"}, secret_url : UrlKinds]
    /\ loaded = [none |-> TRUE, tag |-> ""]
    /\ pdf_dataset = NoTable

\* main, app.py:1099: init_session_state(), at the start of a run: the session
\* is what the run before left, the variables of main and of the page are new
InitSessionState ==
    /\ pc = "start"
    /\ session' = init_session_state(session)
    /\ pc' = "init"
    /\ df' = NoTable /\ ultima_fecha' = None
    /\ loaded' = [none |-> TRUE, tag |-> ""]
    /\ df_req' = NoTable /\ missing' = <<>>
    /\ time_view' = "FULL" /\ df_main' = NoTable /\ raised' = ""
    /\ sel_years' = {} /\ df_view' = NoTable /\ top_count' = 0 /\ top' = NoTable
    /\ yoy' = [none |-> TRUE, df |-> NoTable] /\ monthly' = NoTable
    /\ pdf_dataset' = NoTable
    /\ UNCHANGED <<raw, df2, ultima2, env, numVars>>

\* main, app.py:1103: df_raw, ultima_fecha, source_mode = load_data_flow()
LoadDataFlow ==
    /\ pc = "init"
    /\ \E r \in {load_data_flow(session, env)} :
           /\ df' = r.df
           /\ ultima_fecha' = r.ultima
           /\ loaded' = [none |-> r.none, tag |-> r.tag]
           /\ session' = [session EXCEPT !.last_error = r.last_error]
    /\ pc' = "loaded"
    /\ UNCHANGED <<raw, df2, ultima2, env, pdf_dataset, numVars, viewVars, aggVars, reqVars>>

\* main, app.py:1105: sidebar_controls, with what the widgets hold in this run:
\* up the kind of the file in the uploader ("ABSENT" for none), url the text of
\* the URL input, theme whether a theme button was pressed, label the time view
\* picked.  Lines 625-628 store the upload and rerun; line 631 stores the URL;
\* lines 653-660 rerun on a theme button; line 664 looks the current label up
\* (StopIteration when no label has the session's value); lines 674-677 store
\* a changed time view and rerun.
SidebarControls(up, url, theme, label) ==
    /\ pc = "loaded"
    /\ IF up # "ABSENT"
       THEN /\ session' = [session EXCEPT !.uploaded_parquet = up]
            /\ pc' = "start"
            /\ UNCHANGED raised
       ELSE IF theme
       THEN /\ session' = [session EXCEPT !.data_url = url]
            /\ pc' = "start"
            /\ UNCHANGED raised
       ELSE IF ~\E l \in TIME_VIEW_LABELS : l[2] = session.time_view
       THEN /\ session' = [session EXCEPT !.data_url = url, !.last_error = "StopIteration"]
            /\ raised' = "StopIteration"
            /\ pc' = "crashed"
       ELSE /\ session' = [session EXCEPT !.data_url = url,
                                          !.time_view = IF label[2] # @ THEN label[2] ELSE @]
            /\ pc' = IF label[2] # session.time_view THEN "start" ELSE "sidebar"
            /\ UNCHANGED raised
    /\ UNCHANGED <<env, loaded, pdf_dataset, time_view, df_main, etlVars, numVars, aggVars, reqVars>>

\* main, app.py:1110-1113: if df_raw is None: ... st.stop()
StopNoData ==
    /\ pc = "sidebar"
    /\ loaded.none
    /\ pc' = "stopped"
    /\ UNCHANGED <<etlVars, numVars, viewVars, aggVars, reqVars, sessVars>>

\* main, app.py:1116: df_raw, missing = ensure_required_columns(df_raw)
EnsureLoaded ==
    /\ pc = "sidebar"
    /\ ~loaded.none
    /\ LET r == ensure_required_columns(df)
       IN  df_req' = r.df /\ missing' = r.missing
    /\ pc' = "ensured"
    /\ UNCHANGED <<etlVars, numVars, viewVars, aggVars, sessVars>>

\* the time view applied without the check of the missing list
ApplySessionView_Unchecked ==
    /\ pc = "ensured"
    /\ LET r == apply_time_view(df_req, ultima_fecha, "FULL")
       IN  /\ df_main' = r.df
           /\ raised' = r.raised
           /\ pc' = "viewed"
    /\ time_view' = session.time_view
    /\ UNCHANGED <<etlVars, numVars, aggVars, reqVars, sessVars>>

\* main, app.py:1126: df_main = apply_time_view(df_raw, ultima_fecha), the mode
\* read from the session (app.py:360); an exception leaves main and the
\* entrypoint (app.py:1154-1157) records it in last_error
ApplySessionView ==
    /\ pc = "ensured"
    /\ missing = <<>>
    /\ LET r == apply_time_view(df_req, ultima_fecha, session.time_view)
       IN  /\ df_main' = r.df
           /\ raised' = r.raised
           /\ pc' = IF r.raised = "" THEN "viewed" ELSE "crashed"
           /\ session' = IF r.raised = "" THEN session
                          ELSE [session EXCEPT !.last_error = r.raised]
    /\ time_view' = session.time_view
    /\ UNCHANGED <<env, loaded, pdf_dataset, etlVars, numVars, aggVars, reqVars>>

\* page_macro taking the latest date again from the rows it shows
PageMacro_Recompute(sel) ==
    /\ pc = "viewed"
    /\ sel \subseteq YearsAvailable(df_main)
    /\ sel_years' = sel
    /\ LET view == YearsView(df_main, sel)
           keys == GroupKeys(view, MARCA)
           sums == [g \in 1..Len(keys) |-> GroupSum(view, MARCA, keys[g], CANTIDAD)]
       IN  /\ df_view' = view
           /\ monthly' = agg_monthly(view)
           /\ top_count' = TOP_N
           /\ \E order \in DescendingOrders(sums) : top' = top_share(view, MARCA, TOP_N, order)
           /\ yoy' = yoy_table(df_main, view, MARCA, sel)
           /\ pdf_dataset' = view
           /\ ultima_fecha' = MaxDate(Col(view, FECHA))
    /\ pc' = "paged"
    /\ UNCHANGED <<session, env, loaded, raw, df, df2, ultima2, numVars, viewVars, reqVars>>

\* main, app.py:1134-1135: pdf_dataset, pdf_title = page_macro(df_main), with the
\* years picked in the multiselect of line 704: none picked returns an empty
\* table at line 708; else the view of line 710, the monthly series of line
\* 727, the top of line 776, the comparison of line 798, and the view returned
\* at line 819
PageMacro(sel) ==
    /\ pc = "viewed"
    /\ sel \subseteq YearsAvailable(df_main)
    /\ sel_years' = sel
    /\ IF sel = {}
       THEN /\ pdf_dataset' = FilterRows(df_main, {})
            /\ UNCHANGED <<df_view, monthly, top, top_count, yoy>>
       ELSE LET view == YearsView(df_main, sel)
                keys == GroupKeys(view, MARCA)
                sums == [g \in 1..Len(keys) |-> GroupSum(view, MARCA, keys[g], CANTIDAD)]
            IN  /\ df_view' = view
                /\ monthly' = agg_monthly(view)
                /\ top_count' = TOP_N
                /\ \E order \in DescendingOrders(sums) : top' = top_share(view, MARCA, TOP_N, order)
                /\ yoy' = yoy_table(df_main, view, MARCA, sel)
                /\ pdf_dataset' = view
    /\ pc' = "paged"
    /\ UNCHANGED <<session, env, loaded, etlVars, numVars, viewVars, reqVars>>

\* main, app.py:1144-1145: the exports, offered when the page's table is not empty
SidebarExports ==
    /\ pc = "paged"
    /\ Len(pdf_dataset.rows) > 0 /\ Len(pdf_dataset.hdr) > 0
    /\ pc' = "exported"
    /\ UNCHANGED <<etlVars, numVars, viewVars, aggVars, reqVars, sessVars>>

\* the run is over (stopped, failed, or through the exports); an interaction
\* of the user reruns the script on the same session
Rerun ==
    /\ \/ pc \in {"stopped", "crashed", "exported"}
       \/ pc = "paged" /\ ~(Len(pdf_dataset.rows) > 0 /\ Len(pdf_dataset.hdr) > 0)
    /\ pc' = "start"
    /\ UNCHANGED <<etlVars, numVars, viewVars, aggVars, reqVars, sessVars>>

NextSession ==
    \/ InitSessionState
    \/ LoadDataFlow
    \/ \E up \in UploadKinds \cup {"ABSENT"}, url \in UrlKinds, theme \in BOOLEAN,
          label \in TIME_VIEW_LABELS : SidebarControls(up, url, theme, label)
    \/ StopNoData
    \/ EnsureLoaded
    \/ StopMissing
    \/ ApplySessionView
    \/ \E sel \in SUBSET YearChoices : PageMacro(sel)
    \/ SidebarExports
    \/ Rerun

SpecSession == InitSession /\ [][NextSession]_vars

(***************************************************************************)
(* Properties of numeric coercion (SpecNum)                                *)
(***************************************************************************)
CurrencySymbols == {"$", "₡"}

\* a leading currency symbol, then digits in comma groups
IsCurrencyGrouped(s) ==
    /\ Len(s) >= 2
    /\ s[1] \in CurrencySymbols
    /\ IsDigit(s[2])
    /\ IsDigit(s[Len(s)])
    /\ \A i \in 2..Len(s) : IsDigit(s[i]) \/ s[i] = ","

\* the integer the digit groups spell
GroupedInteger(s) == Fin(DigitsValue(SelectSeq(s, IsDigit)), 1)

\* text that spells an IEEE infinity, which float() reads as a number
IsInfinityWord(s) ==
    LET word == LowerStr(SelectSeq(s, LAMBDA c : c \notin (Spaces \cup {"+", "-"})))
    IN  word \in {<<"i", "n", "f">>, <<"i", "n", "f", "i", "n", "i", "t", "y">>}

\* empty, or with no digit at all, or with a letter among the characters (the
\* cells enumerated have no exponent letter)
IsNonNumeric(s) ==
    /\ ~IsInfinityWord(s)
    /\ \/ \A i \in 1..Len(s) : ~IsDigit(s[i])
       \/ \E i \in 1..Len(s) : s[i] \in Lower \cup Upper

\* C8: coercing a cell of a numeric column always yields a number (never a
\* failure, NaN or a missing value); a cell made of a leading currency symbol
\* and comma-grouped digits yields the grouped integer ("$12,345" gives 12345);
\* an empty, missing or non-numeric cell ("", "abc") yields 0.
C8_NumericCoercion ==
    pc \in {"coerced", "recoerced"} =>
        /\ num.t \in {"fin", "inf"}
        /\ (cell.t = "str" /\ IsCurrencyGrouped(cell.s)) => num = GroupedInteger(cell.s)
        /\ (cell.t = "none" \/ (cell.t = "str" /\ IsNonNumeric(cell.s))) => num = Zero

C8_Witness ==
    /\ pc = "coerced"
    /\ cell = Str(<<"$", "1", "2", ",", "3", "4", "5">>)
    /\ num = Fin(12345, 1)

(***************************************************************************)
(* Properties of etl_clean and apply_time_view (SpecEtl)                   *)
(***************************************************************************)
\* C1: etl_clean applied to the canonical table etl_clean returned gives an
\* equal table (same rows, same value in every column) and the same
\* max_observed_date.
C1_Idempotent ==
    pc = "recleaned" => (df2 = df /\ ultima2 = ultima_fecha)

\* the unit metric of a table: present, finite in every row, 0 where quantity is 0
UnitMetricOk(t, valueCol, unitCol) ==
    (HasCol(t, CANTIDAD) /\ HasCol(t, valueCol)) =>
        /\ HasCol(t, unitCol)
        /\ \A r \in 1..Len(t.rows) :
              /\ IsFinite(At(t, t.rows[r], unitCol))
              /\ IsZero(At(t, t.rows[r], CANTIDAD)) => At(t, t.rows[r], unitCol) = Zero

\* C2: in every table etl_clean returns that has quantity and customs-value
\* (resp. freight) columns, CIF_UNITARIO (resp. FLETE_UNITARIO) is finite in
\* every row and exactly 0 in every row whose quantity is 0.
C2_UnitMetricsFinite ==
    \A t \in {df, df2} :
        UnitMetricOk(t, VALOR_CIF, CIF_UNITARIO) /\ UnitMetricOk(t, FLETE, FLETE_UNITARIO)

\* a returned row with quantity 0 and an infinite value, its unit metric 0
C2_Witness ==
    /\ pc = "clean"
    /\ \E valueCol \in {VALOR_CIF, FLETE} :
          /\ HasCol(df, valueCol) /\ HasCol(df, CANTIDAD)
          /\ \E r \in 1..Len(df.rows) :
                /\ IsZero(At(df, df.rows[r], CANTIDAD))
                /\ At(df, df.rows[r], valueCol) = PInf
                /\ At(df, df.rows[r], IF valueCol = VALOR_CIF THEN CIF_UNITARIO
                                                              ELSE FLETE_UNITARIO) = Zero

IsNull(v) == v.t \in {"none", "nat", "nan"}

\* C9: the max_observed_date etl_clean returns is the maximum date over the
\* rows of the canonical table it returns, and null when that table has no
\* row with a valid date.
C9_MaxDateOfReturnedTable ==
    pc # "raw" =>
        IF HasCol(df, FECHA) /\ Len(df.rows) > 0
        THEN ultima_fecha = MaxDate(Col(df, FECHA))
        ELSE IsNull(ultima_fecha)

\* C10: in mode YTD, with the max_observed_date etl_clean produced for a
\* dataset without any valid date, apply_time_view returns the table
\* unfiltered and does not fail.
C10_YtdWithoutDate ==
    (pc = "viewed" /\ time_view = "YTD" /\ IsNull(ultima_fecha)) =>
        (raised = "" /\ df_main = df)

(***************************************************************************)
(* Properties of brand normalisation (SpecBrand)                           *)
(***************************************************************************)
BrandKeys == {p[1] : p \in BRAND_FIXES}

\* the canonical brand of a raw brand cell
CanonicalBrand(b) ==
    LET u == IF b.t = "none" THEN <<>> ELSE UpperStr(Strip(b.s))
    IN  IF u \in {<<"M", ".", "G", ".">>, <<"M", ".", " ", "G", ".">>,
                  <<"M", "O", "R", "R", "I", "S", " ", "G", "A", "R", "A", "G", "E", "S">>}
        THEN <<"M", "G">>
        ELSE IF u = <<"B", "Y", "D", " ", "A", "U", "T", "O">> THEN <<"B", "Y", "D">>
        ELSE IF u = <<"T", "O", "Y", "O", "T", "A", " ", "M", "O", "T", "O", "R">>
             THEN <<"T", "O", "Y", "O", "T", "A">>
        ELSE IF u = <<"M", "B">>
             THEN <<"M", "E", "R", "C", "E", "D", "E", "S", "-", "B", "E", "N", "Z">>
        ELSE u

\* the raw row a returned row came from, by its index label
RawRowOf(t, r) == raw.rows[t.idx[r] + 1]

\* C7: after etl_clean no brand is a key of the alias table; every returned
\* row carries the canonical brand of its raw brand, whatever the casing and
\* surrounding whitespace; and grouping the returned table by brand gives one
\* group per canonical brand, whose quantity is the sum of the quantities of
\* the returned rows of all its variants.
C7_BrandAliasCollapse ==
    (pc # "raw" /\ HasCol(df, MARCA) /\ HasCol(df, CANTIDAD)) =>
        LET keys == GroupKeys(df, MARCA)
            rawMarca == ColIdx(canonicalize_columns(raw), MARCA)
            rawCant  == ColIdx(canonicalize_columns(raw), CANTIDAD)
            From(brand) == {r \in 1..Len(df.rows) :
                               CanonicalBrand(RawRowOf(df, r)[rawMarca]) = brand}
            RECURSIVE Total(_)
            Total(R) == IF R = {} THEN Zero
                        ELSE LET r == CHOOSE x \in R : TRUE
                             IN  Add(Total(R \ {r}), to_number(RawRowOf(df, r)[rawCant]))
        IN  /\ \A r \in 1..Len(df.rows) :
                  /\ At(df, df.rows[r], MARCA).s \notin BrandKeys
                  /\ At(df, df.rows[r], MARCA).s = CanonicalBrand(RawRowOf(df, r)[rawMarca])
            /\ \A i, j \in 1..Len(keys) : i # j => keys[i] # keys[j]
            /\ \A i \in 1..Len(keys) :
                  GroupSum(df, MARCA, keys[i], CANTIDAD) = Total(From(keys[i].s))

\* two returned rows whose raw brands are different variants of MG, in one group
C7_Witness ==
    /\ pc = "clean"
    /\ Len(df.rows) = 2
    /\ RawRowOf(df, 1)[1] # RawRowOf(df, 2)[1]
    /\ \A r \in 1..2 : RawRowOf(df, r)[1] # Str(<<"M", "G">>)
    /\ GroupKeys(df, MARCA) = <<Str(<<"M", "G">>)>>
    /\ GroupSum(df, MARCA, Str(<<"M", "G">>), CANTIDAD) = Fin(3, 1)

(***************************************************************************)
(* Properties of the time window and the aggregations (SpecAgg)            *)
(***************************************************************************)
\* the index labels of the rows of t at the positions in I
Labels(t, I) == {t.idx[r] : r \in I}

YearsPresent(t) == {At(t, t.rows[r], ANIO) : r \in 1..Len(t.rows)}

\* C3: in mode YTD with a non-null max_observed_date, apply_time_view returns
\* exactly the rows whose month number is <= the month of max_observed_date,
\* and does so within every year present, not only the latest; so the YTD rows
\* of a year are a subset of its FULL rows.
C3_YtdExactRows ==
    (pc \in {"viewed", "top", "yoy"} /\ time_view = "YTD" /\ ~IsNull(ultima_fecha)) =>
        LET cutoff == MonthOf(ultima_fecha)
            InMonths(row) == At(df, row, MES_NUM).n <= cutoff
        IN  /\ raised = ""
            /\ df_main.hdr = df.hdr
            /\ df_main.rows = SelectSeq(df.rows, InMonths)
            /\ \A y \in YearsPresent(df) :
                  LET OfYear(t) == {r \in Positions(t.rows) : At(t, t.rows[r], ANIO) = y}
                      ytd  == Labels(df_main, OfYear(df_main))
                      full == Labels(df, OfYear(df))
                  IN  /\ ytd = Labels(df, {r \in OfYear(df) : InMonths(df.rows[r])})
                      /\ ytd \subseteq full

\* a row of a year before the latest is dropped for its month, the latest row kept
C3_Witness ==
    /\ pc = "viewed"
    /\ time_view = "YTD"
    /\ ~IsNull(ultima_fecha)
    /\ Len(df_main.rows) = 1
    /\ At(df_main, df_main.rows[1], FECHA) = ultima_fecha
    /\ \E r \in 1..Len(df.rows) :
          /\ At(df, df.rows[r], ANIO).n < YearOf(ultima_fecha)
          /\ At(df, df.rows[r], MES_NUM).n > MonthOf(ultima_fecha)

\* the categories of the rows of t in year y
CategoriesIn(t, y) ==
    {At(t, t.rows[r], MARCA) : r \in {x \in 1..Len(t.rows) : At(t, t.rows[x], ANIO) = Fin(y, 1)}}

CurrentCategories == CategoriesIn(df_view, SetMax(sel_years))
PreviousCategories == CategoriesIn(df_main, SetMax(sel_years) - 1)

\* C4: in every table yoy_table returns, each category of the current-year
\* slice or of the previous-year slice has exactly one row, no other category
\* has a row, and a category absent from one slice has volume, value and share
\* 0 on that side.
C4_YoyOuterJoin ==
    (pc = "yoy" /\ ~yoy.none) =>
        LET t == yoy.df
            keys == Col(t, MARCA)
        IN  /\ \A c \in CurrentCategories \cup PreviousCategories :
                  Cardinality({i \in 1..Len(keys) : keys[i] = c}) = 1
            /\ \A i \in 1..Len(keys) : keys[i] \in CurrentCategories \cup PreviousCategories
            /\ \A i \in 1..Len(keys) :
                  /\ keys[i] \notin CurrentCategories =>
                        \A c \in {VOL_ACTUAL, CIF_ACTUAL, SHARE_ACTUAL} : At(t, t.rows[i], c) = Zero
                  /\ keys[i] \notin PreviousCategories =>
                        \A c \in {VOL_PREV, CIF_PREV, SHARE_PREV} : At(t, t.rows[i], c) = Zero

\* one category only in the current year and one only in the previous year
C4_Witness ==
    /\ pc = "yoy"
    /\ ~yoy.none
    /\ CurrentCategories \ PreviousCategories # {}
    /\ PreviousCategories \ CurrentCategories # {}
    /\ Len(yoy.df.rows) = 2
    /\ \A i \in 1..2 : ~IsZero(At(yoy.df, yoy.df.rows[i], VOL_ACTUAL))
                         \/ ~IsZero(At(yoy.df, yoy.df.rows[i], VOL_PREV))

\* C5: yoy_table returns null, without raising and without returning an empty
\* table, when fewer than 2 years are selected and when both year slices are
\* empty; in every other case it returns a table.
C5_YoyNull ==
    pc = "yoy" =>
        LET few == Cardinality(sel_years) < 2
            bothEmpty == CurrentCategories = {} /\ PreviousCategories = {}
        IN  /\ raised = ""
            /\ IF few \/ bothEmpty
               THEN yoy.none /\ yoy.df = NoTable
               ELSE ~yoy.none /\ Len(yoy.df.rows) > 0 /\ HasCol(yoy.df, ESTADO)

\* two years selected over a table with rows, and both slices empty
C5_Witness ==
    /\ pc = "yoy"
    /\ Cardinality(sel_years) = 2
    /\ Len(df_main.rows) > 0
    /\ Len(df_view.rows) > 0
    /\ yoy.none

\* C6 as stated: for every table and every n >= 1 the shares of the rows
\* top_share returns sum to 100.
C6_SharesSumTo100 ==
    pc = "top" => SumVals(Col(top, SHARE)) = Fin(100, 1)

\* C6, amended: top_share returns min(n, number of categories) rows, each
\* share being the row's quantity relative to the subtotal of the returned
\* rows (the full total when n >= the number of categories); the shares sum
\* to 100 when that subtotal is a non-zero finite number, and are all 0 when
\* it is 0 (no rows, or only zero quantities).
C6_SharesSumTo100UnlessZero ==
    pc = "top" =>
        LET categories == Cardinality({At(df_view, df_view.rows[r], MARCA) :
                                          r \in 1..Len(df_view.rows)})
            subtotal == SumVals(Col(top, CANTIDAD))
        IN  /\ Len(top.rows) = IF top_count < categories THEN top_count ELSE categories
            /\ top_count >= categories => subtotal = SumVals(Col(df_view, CANTIDAD))
            /\ (IsFinite(subtotal) /\ ~IsZero(subtotal)) =>
                  /\ SumVals(Col(top, SHARE)) = Fin(100, 1)
                  /\ \A r \in 1..Len(top.rows) :
                        At(top, top.rows[r], SHARE)
                            = Times100(Div(At(top, top.rows[r], CANTIDAD), subtotal))
            /\ IsZero(subtotal) =>
                  \A r \in 1..Len(top.rows) : At(top, top.rows[r], SHARE) = Zero

\* fewer rows than categories, the category left out having a quantity
C6_Witness ==
    /\ pc = "top"
    /\ Len(top.rows) = 1
    /\ top_count = 1
    /\ At(top, top.rows[1], SHARE) = Fin(100, 1)
    /\ ~IsZero(SumVals(Col(df_view, CANTIDAD)))
    /\ SumVals(Col(df_view, CANTIDAD)) # At(top, top.rows[1], CANTIDAD)

\* C11: in mode FULL apply_time_view returns its input table unchanged (same
\* rows, same values, same index), whatever max_observed_date is, and does
\* not fail.
C11_FullUnchanged ==
    (pc \in {"viewed", "top", "yoy"} /\ time_view = "FULL") =>
        (raised = "" /\ df_main = df)

\* mode FULL over a table with a row whose month is after the cutoff month
C11_Witness ==
    /\ pc = "viewed"
    /\ time_view = "FULL"
    /\ ultima_fecha.t = "date"
    /\ Len(df_main.rows) = 2
    /\ \E r \in 1..2 : At(df_main, df_main.rows[r], MES_NUM).n > MonthOf(ultima_fecha)

\* C12: in every table etl_clean returns, every value of every designated
\* numeric column present (quantity, customs value, freight) is a finite
\* number >= 0.
C12_NumericNonNegativeFinite ==
    pc # "raw" =>
        \A k \in 1..Len(NUM_COLS) :
            HasCol(df, NUM_COLS[k]) =>
                \A r \in 1..Len(df.rows) :
                    /\ IsFinite(At(df, df.rows[r], NUM_COLS[k]))
                    /\ Geq(At(df, df.rows[r], NUM_COLS[k]), Zero)

(***************************************************************************)
(* Properties of text normalisation (SpecText)                             *)
(***************************************************************************)
\* text without a lower-case letter and without whitespace at either end
IsUpperTrimmed(s) ==
    /\ \A i \in 1..Len(s) : s[i] \notin Lower
    /\ s = <<>> \/ (s[1] \notin Spaces /\ s[Len(s)] \notin Spaces)

IsMissing(v) == v.t \in {"none", "nan"}

\* C13: in every table etl_clean returns, every value of every designated
\* text column present is text, upper-cased and trimmed, and is the empty
\* text where the input value was null or missing.
C13_TextUpperTrimmed ==
    pc # "raw" =>
        \A k \in 1..Len(TEXT_COLS) :
            HasCol(df, TEXT_COLS[k]) =>
                \A r \in 1..Len(df.rows) :
                    LET out == At(df, df.rows[r], TEXT_COLS[k])
                        in  == RawRowOf(df, r)[ColIdx(df, TEXT_COLS[k])]
                    IN  /\ out.t = "str"
                        /\ IsUpperTrimmed(out.s)
                        /\ IsMissing(in) => out.s = <<>>

(***************************************************************************)
(* Properties of the rows etl_clean keeps (SpecEtl)                        *)
(***************************************************************************)
\* C14: when the input has date and quantity columns, every returned row
\* has a valid date (the one its input row spells), a year and a month number
\* equal to the year and month of that date, and a quantity >= 0; an input row
\* is returned exactly when its date parses and its quantity is not negative.
C14_RowsKept ==
    LET named == canonicalize_columns(raw)
    IN  (pc # "raw" /\ HasCol(named, FECHA) /\ HasCol(named, CANTIDAD)) =>
            LET Parses(i) == ToDatetime(At(named, raw.rows[i], FECHA)).t = "date"
                Negative(i) == ~Geq(to_number(At(named, raw.rows[i], CANTIDAD)), Zero)
            IN  /\ \A r \in 1..Len(df.rows) :
                      LET fecha == At(df, df.rows[r], FECHA)
                      IN  /\ fecha.t = "date"
                          /\ fecha = ToDatetime(At(named, RawRowOf(df, r), FECHA))
                          /\ MonthOf(fecha) \in 1..12
                          /\ DayOf(fecha) \in 1..DaysIn(YearOf(fecha), MonthOf(fecha))
                          /\ At(df, df.rows[r], ANIO) = Fin(YearOf(fecha), 1)
                          /\ At(df, df.rows[r], MES_NUM) = Fin(MonthOf(fecha), 1)
                          /\ Geq(At(df, df.rows[r], CANTIDAD), Zero)
                /\ df.idx = Pick(raw.idx, {i \in Positions(raw.rows) : Parses(i) /\ ~Negative(i)})

\* of two input rows the first, with a valid date and a negative quantity, is
\* dropped and the second is returned
C14_Witness ==
    /\ pc = "clean"
    /\ HasCol(df, FECHA)
    /\ Len(raw.rows) = 2
    /\ raw.rows[1][1].t = "date" /\ raw.rows[1][2] = Str(<<"-", "1">>)
    /\ df.idx = <<1>>

(***************************************************************************)
(* Properties of the required-columns step and of date synthesis (SpecLoad) *)
(***************************************************************************)
\* a cell that holds an integer, as a number or as text of digits
IsIntCell(v) ==
    \/ v.t = "fin" /\ v.d = 1
    \/ v.t = "str" /\ Len(v.s) > 0 /\ \A i \in 1..Len(v.s) : IsDigit(v.s[i])

IntOfCell(v) == IF v.t = "fin" THEN v.n ELSE DigitsValue(v.s)

\* t has year and month-number columns holding integers and no date column
HasYearMonthOnly(t) ==
    /\ ~HasCol(t, FECHA) /\ HasCol(t, ANIO) /\ HasCol(t, MES_NUM)
    /\ \A r \in Positions(t.rows) :
          IsIntCell(At(t, t.rows[r], ANIO)) /\ IsIntCell(At(t, t.rows[r], MES_NUM))

\* every row of t has the first day of its month and year as its date
HasFirstOfMonthDates(t) ==
    /\ HasCol(t, FECHA)
    /\ \A r \in Positions(t.rows) :
          At(t, t.rows[r], FECHA) = Date(IntOfCell(At(t, t.rows[r], ANIO)),
                                         IntOfCell(At(t, t.rows[r], MES_NUM)), 1)

\* C15: when the raw table has no date column but year and month-number
\* columns, the load pipeline gives every row the first day of its month and
\* year as its date, and max_observed_date is the maximum of these dates.
C15_SynthesizedDateAnchorsYtd ==
    (pc \in {"ensured", "stopped", "viewed"} /\ HasYearMonthOnly(canonicalize_columns(raw))) =>
        /\ HasFirstOfMonthDates(df_req)
        /\ Len(df_req.rows) > 0 => ultima_fecha = MaxDate(Col(df_req, FECHA))

\* C17: the list ensure_required_columns returns holds exactly the required
\* columns absent from the table it returns, each once; when the date column
\* is absent and year and month-number are present and convertible, the
\* returned table has the synthesized date and the list has no date; the list
\* is empty iff all four required columns are in the returned table; and the
\* table is returned otherwise as it was given.
C17_MissingListExact ==
    pc \in {"ensured", "stopped", "viewed"} =>
        LET required == {CANTIDAD, VALOR_CIF, FECHA, MARCA}
            listed   == {missing[i] : i \in 1..Len(missing)}
        IN  /\ listed = {c \in required : ~HasCol(df_req, c)}
            /\ Cardinality(listed) = Len(missing)
            /\ HasYearMonthOnly(df) => (HasFirstOfMonthDates(df_req) /\ FECHA \notin listed)
            /\ (missing = <<>>) <=> (\A c \in required : HasCol(df_req, c))
            /\ IF HasCol(df, FECHA) \/ ~HasCol(df_req, FECHA)
               THEN df_req = df
               ELSE /\ df_req.hdr = Append(df.hdr, FECHA)
                    /\ df_req.idx = df.idx
                    /\ \A r \in Positions(df.rows) :
                          SubSeq(df_req.rows[r], 1, Len(df.hdr)) = df.rows[r]

\* a table without a date column comes back with dates built from its year and
\* month columns and with nothing missing
C17_Witness ==
    /\ pc = "ensured"
    /\ ~HasCol(df, FECHA)
    /\ Len(df_req.rows) = 2
    /\ missing = <<>>
    /\ At(df_req, df_req.rows[1], FECHA) = Date(2023, 3, 1)
    /\ At(df_req, df_req.rows[2], FECHA) = Date(2024, 11, 1)

(***************************************************************************)
(* C16                                                                     *)
(***************************************************************************)
\* a column name as the alias table is asked for it: trimmed, runs of
\* whitespace collapsed to one space, upper case
NormalName(s) == UpperStr(CollapseSpaces(Strip(s)))

IsAlias(n) == \E p \in CANON_COLS : p[1] = n

\* C16: canonicalize_columns is idempotent and loses no column: the table it
\* returns has the columns of its input in the same places and the same
\* rows; a column whose name is an alias (in any casing and spacing) is
\* named by the canonical name of that alias; a column whose name the alias
\* table does not know is still there, under its normalised name; and
\* applying canonicalize_columns to its own output changes nothing.
C16_CanonicalizeIdempotent ==
    /\ pc \in {"canon", "recanon"} =>
          /\ Len(df.hdr) = Len(raw.hdr)
          /\ df.idx = raw.idx
          /\ df.rows = raw.rows
          /\ \A i \in Positions(raw.hdr) :
                /\ \A p \in CANON_COLS : p[1] = NormalName(raw.hdr[i]) => df.hdr[i] = p[2]
                /\ ~IsAlias(NormalName(raw.hdr[i])) => df.hdr[i] = NormalName(raw.hdr[i])
    /\ pc = "recanon" => df2 = df

\* the customs-value alias written in lower case with a doubled space, next
\* to a column the alias table does not know, canonicalized twice
C16_Witness ==
    /\ pc = "recanon"
    /\ raw.hdr = << <<"v", "a", "l", "o", "r", " ", " ", "u", "s", "d", " ", "c", "i", "f">>,
                    <<" ", "T", "i", "p", "o", " ", "\t", "d", "e", " ", " ">> >>
    /\ df.hdr = <<VALOR_CIF, <<"T", "I", "P", "O", " ", "D", "E">> >>
    /\ df2.hdr = df.hdr
    /\ Len(df2.rows) = 1

(***************************************************************************)
(* C18                                                                     *)
(***************************************************************************)
\* the values of column c in the rows of the yoy table for category key
YoyValues(key, c) ==
    {At(yoy.df, yoy.df.rows[i], c) :
        i \in {x \in Positions(yoy.df.rows) : At(yoy.df, yoy.df.rows[x], MARCA) = key}}

VolumeOf(t, y, key) ==
    SumVals(Pick(Col(t, CANTIDAD),
                 {r \in Positions(t.rows) :
                     At(t, t.rows[r], ANIO) = Fin(y, 1) /\ At(t, t.rows[r], MARCA) = key}))

\* C19: in yoy_table the current year is the maximum of the selected years
\* and the previous year is that year minus 1, selected or not: each row's
\* current volume is the category's volume in the view for the largest
\* selected year, its previous volume is the category's volume in the main
\* table for the year before, whichever years are selected, and a table is
\* returned whenever the main table has a row in that year.
C19_PreviousYearIsCurrentMinusOne ==
    (pc = "yoy" /\ Cardinality(sel_years) >= 2) =>
        LET curr_y == SetMax(sel_years)
            prev_y == curr_y - 1
        IN  /\ CategoriesIn(df_main, prev_y) # {} => ~yoy.none
            /\ ~yoy.none =>
                  /\ \A c \in CategoriesIn(df_main, prev_y) : YoyValues(c, VOL_PREV) # {}
                  /\ \A i \in Positions(yoy.df.rows) :
                        LET key == At(yoy.df, yoy.df.rows[i], MARCA)
                        IN  /\ At(yoy.df, yoy.df.rows[i], VOL_ACTUAL) = VolumeOf(df_view, curr_y, key)
                            /\ At(yoy.df, yoy.df.rows[i], VOL_PREV) = VolumeOf(df_main, prev_y, key)

\* 2023 and 2025 selected: the previous year, 2024, is not selected, the view
\* has no row of it, and the previous volume is that of 2024 in the main table
C19_Witness ==
    /\ pc = "yoy"
    /\ sel_years = {2023, 2025}
    /\ CategoriesIn(df_view, 2024) = {}
    /\ CategoriesIn(df_view, 2023) # {}
    /\ ~yoy.none
    /\ \E i \in Positions(yoy.df.rows) :
          /\ ~IsZero(At(yoy.df, yoy.df.rows[i], VOL_PREV))
          /\ At(yoy.df, yoy.df.rows[i], VOL_PREV)
                = VolumeOf(df_main, 2024, At(yoy.df, yoy.df.rows[i], MARCA))

(***************************************************************************)
(* C20                                                                     *)
(***************************************************************************)
\* the quantities of year y of table t, summed over every category
TotalOf(t, y) ==
    SumVals(Pick(Col(t, CANTIDAD),
                 {r \in Positions(t.rows) : At(t, t.rows[r], ANIO) = Fin(y, 1)}))

\* v as a percentage of total, 0 when the total is 0
PercentOf(v, total) ==
    IF total.n = 0 THEN Zero ELSE Rat(100 * v.n * total.d, v.d * total.n)

\* C20: in every row of a table yoy_table returns, the current share is the
\* category's current volume as a percentage of the total volume of the
\* current-year slice and the previous share is its previous volume as a
\* percentage of the total volume of the previous-year slice (0 when that
\* total is 0); the share delta is current share minus previous share, the
\* value delta is current value minus previous value, and the status is
\* "gained" when the share delta is at least 0 and "lost" otherwise.
C20_SharesDeltasStatus ==
    (pc = "yoy" /\ ~yoy.none) =>
        LET t == yoy.df
            total_curr == TotalOf(df_view, SetMax(sel_years))
            total_prev == TotalOf(df_main, SetMax(sel_years) - 1)
        IN  \A i \in Positions(t.rows) :
                LET va == At(t, t.rows[i], VOL_ACTUAL)
                    vp == At(t, t.rows[i], VOL_PREV)
                    sa == At(t, t.rows[i], SHARE_ACTUAL)
                    sp == At(t, t.rows[i], SHARE_PREV)
                    ds == At(t, t.rows[i], DELTA_SHARE)
                IN  /\ sa = PercentOf(va, total_curr)
                    /\ sp = PercentOf(vp, total_prev)
                    /\ ds.t = "fin"
                    /\ ds = Rat(sa.n * sp.d - sp.n * sa.d, sa.d * sp.d)
                    /\ At(t, t.rows[i], DELTA_INV)
                          = Sub(At(t, t.rows[i], CIF_ACTUAL), At(t, t.rows[i], CIF_PREV))
                    /\ At(t, t.rows[i], ESTADO) = IF ds.n >= 0 THEN GANO ELSE PERDIO

\* the scenario at a quarter of a small total: BYD only in the current year
\* with 1 of 4 units has previous volume 0, previous share 0, current share
\* 25, share delta +25 and status "gained"
C20_Witness ==
    /\ pc = "yoy"
    /\ ~yoy.none
    /\ Str(<<"B", "Y", "D">>) \notin CategoriesIn(df_main, SetMax(sel_years) - 1)
    /\ TotalOf(df_view, SetMax(sel_years)) = Fin(4, 1)
    /\ YoyValues(Str(<<"B", "Y", "D">>), VOL_ACTUAL) = {Fin(1, 1)}
    /\ YoyValues(Str(<<"B", "Y", "D">>), VOL_PREV) = {Zero}
    /\ YoyValues(Str(<<"B", "Y", "D">>), SHARE_PREV) = {Zero}
    /\ YoyValues(Str(<<"B", "Y", "D">>), SHARE_ACTUAL) = {Fin(25, 1)}
    /\ YoyValues(Str(<<"B", "Y", "D">>), DELTA_SHARE) = {Fin(25, 1)}
    /\ YoyValues(Str(<<"B", "Y", "D">>), ESTADO) = {GANO}

(***************************************************************************)
(* C24                                                                     *)
(***************************************************************************)
\* digits, one separator (a comma or a period), then k digits
IsSeparated(s, k) ==
    /\ Len(s) >= k + 2
    /\ s[Len(s) - k] \in {",", "."}
    /\ \A i \in Positions(s) : i # Len(s) - k => IsDigit(s[i])

\* the number read with the last k digits as the decimal fraction
WithFraction(s, k) == Rat(DigitsValue(SelectSeq(s, IsDigit)), Pow10(k))

\* C24: in numeric coercion a cell of digits, one comma or period, and then
\* fewer than 3 digits is read with those digits as the decimal fraction
\* ("12.34" gives 12.34 and "12,5" gives 12.5), and a cell of digits, one
\* comma or period, and then exactly 3 digits is read as a grouped integer.
C24_DecimalSegment ==
    (pc \in {"coerced", "recoerced"} /\ cell.t = "str") =>
        /\ \A k \in 1..2 : IsSeparated(cell.s, k) => num = WithFraction(cell.s, k)
        /\ IsSeparated(cell.s, 3) => num = Fin(DigitsValue(SelectSeq(cell.s, IsDigit)), 1)

(***************************************************************************)
(* C25                                                                     *)
(***************************************************************************)
\* the quantities of category key in table t, summed
CategoryVolume(t, key) ==
    SumVals(Pick(Col(t, CANTIDAD), {r \in Positions(t.rows) : At(t, t.rows[r], MARCA) = key}))

AllCategories(t) == {At(t, t.rows[r], MARCA) : r \in Positions(t.rows)}

\* C25: top_share returns at most n rows, one per category, each with the
\* category's summed quantity, in non-increasing order of that quantity;
\* every returned category's volume is at least the volume of every category
\* not returned; and each row's share is its volume as a percentage of the
\* sum of the returned rows' volumes (0 when that sum is 0), not of the
\* total of the table.
C25_TopShareRanking ==
    pc = "top" =>
        LET shown    == {At(top, top.rows[r], MARCA) : r \in Positions(top.rows)}
            subtotal == SumVals(Col(top, CANTIDAD))
        IN  /\ Len(top.rows) <= top_count
            /\ Cardinality(shown) = Len(top.rows)
            /\ shown \subseteq AllCategories(df_view)
            /\ \A r \in Positions(top.rows) :
                  /\ At(top, top.rows[r], CANTIDAD)
                        = CategoryVolume(df_view, At(top, top.rows[r], MARCA))
                  /\ r > 1 => Geq(At(top, top.rows[r - 1], CANTIDAD), At(top, top.rows[r], CANTIDAD))
                  /\ \A c \in AllCategories(df_view) \ shown :
                        Geq(At(top, top.rows[r], CANTIDAD), CategoryVolume(df_view, c))
                  /\ At(top, top.rows[r], SHARE)
                        = PercentOf(At(top, top.rows[r], CANTIDAD), subtotal)

\* two categories of different volume and n = 1: the larger one is returned
\* alone with share 100, which is not its share of the table
C25_Witness ==
    /\ pc = "top"
    /\ top_count = 1
    /\ Len(top.rows) = 1
    /\ Cardinality(AllCategories(df_view)) = 2
    /\ At(top, top.rows[1], CANTIDAD) = Fin(3, 1)
    /\ SumVals(Col(df_view, CANTIDAD)) = Fin(4, 1)
    /\ At(top, top.rows[1], SHARE) = Fin(100, 1)

(***************************************************************************)
(* C26                                                                     *)
(***************************************************************************)
\* the (year, month) pairs of the rows of t, as numbers
YearMonthPairs(t) ==
    {<<At(t, t.rows[r], ANIO).n, At(t, t.rows[r], MES_NUM).n>> : r \in Positions(t.rows)}

\* the quantities of the rows of t of year and month p, summed
PairVolume(t, p) ==
    SumVals(Pick(Col(t, CANTIDAD),
                 {r \in Positions(t.rows) :
                     At(t, t.rows[r], ANIO).n = p[1] /\ At(t, t.rows[r], MES_NUM).n = p[2]}))

\* the result has exactly one row for each pair of P, with the pair's volume
\* and the first day of the pair's month as its date
OneRowPerPair(P) ==
    /\ Len(monthly.rows) = Cardinality(P)
    /\ \A p \in P :
          \E g \in Positions(monthly.rows) :
              /\ At(monthly, monthly.rows[g], ANIO).n = p[1]
              /\ At(monthly, monthly.rows[g], MES_NUM).n = p[2]
              /\ At(monthly, monthly.rows[g], CANTIDAD) = PairVolume(df_view, p)
              /\ At(monthly, monthly.rows[g], FECHA_MENSUAL) = Date(p[1], p[2], 1)

\* C26: agg_monthly returns exactly one row per distinct (year, month number)
\* pair of its input, with the sum of the quantities of the pair's rows as
\* volume and the first day of that month as date, and the volumes of the
\* result sum to the total quantity of the input.
C26_OneRowPerMonth ==
    pc = "monthly" =>
        /\ OneRowPerPair(YearMonthPairs(df_view))
        /\ SumVals(Col(monthly, CANTIDAD)) = SumVals(Col(df_view, CANTIDAD))

\* C26, amended: agg_monthly returns exactly one row per distinct (year,
\* month number) pair of its input for which "<year>-<month>-01" is a
\* calendar date (for the whole-number years of four digits enumerated: the
\* month number is one of 1..12), with the sum of the quantities of the
\* pair's rows as volume and that first day of the month as date; any other
\* pair has no row, and the volumes of the result sum to the quantity of
\* the input rows of the pairs that have a row.
C26_OneRowPerCalendarMonth ==
    pc = "monthly" =>
        LET dated == {p \in YearMonthPairs(df_view) : p[2] \in 1..12}
            rows  == {r \in Positions(df_view.rows) : At(df_view, df_view.rows[r], MES_NUM).n \in 1..12}
        IN  /\ OneRowPerPair(dated)
            /\ SumVals(Col(monthly, CANTIDAD)) = SumVals(Pick(Col(df_view, CANTIDAD), rows))

\* two rows of March 2023 with 1 and 3 units give one row of 4 units dated
\* 2023-03-01
C26_Witness ==
    /\ pc = "monthly"
    /\ Len(df_view.rows) = 2
    /\ Len(monthly.rows) = 1
    /\ YearMonthPairs(df_view) = {<<2023, 3>>}
    /\ At(monthly, monthly.rows[1], CANTIDAD) = Fin(4, 1)
    /\ At(monthly, monthly.rows[1], FECHA_MENSUAL) = Date(2023, 3, 1)

(***************************************************************************)
(* C27                                                                     *)
(***************************************************************************)
\* C27: no consumer mutates the table passed to it: the table read is the
\* same after etl_clean (and canonicalize_columns in it), the table etl_clean
\* returned is the same after ensure_required_columns, the table that
\* returned is the same after apply_time_view, and the windowed table and
\* the view of the selected years are the same after agg_monthly, top_share
\* and yoy_table, however many of them ran and in whatever order.
C27_NoConsumerMutates ==
    [][/\ raw' = raw
       /\ pc # "raw" => df' = df
       /\ pc # "clean" => df_req' = df_req
       /\ pc # "ensured" => df_main' = df_main
       /\ (pc = "viewed" /\ sel_years' = sel_years /\ df_view # NoTable) => df_view' = df_view]_vars

\* the three aggregations have run on a windowed table that differs from the
\* table etl_clean returned, which still has its two rows
C27_Witness ==
    /\ pc = "viewed"
    /\ monthly # NoTable /\ top # NoTable /\ ~yoy.none
    /\ Len(df.rows) = 2
    /\ Len(df_main.rows) = 1
    /\ df_req = df
    /\ raw.rows[1][1].t = "str"

(***************************************************************************)
(* Properties of the session (SpecSession)                                 *)
(***************************************************************************)
UploadStored == session.uploaded_parquet # "ABSENT"
LocalExists == env.local # "absent"
UrlConfigured == env.secret_url # "" \/ session.data_url \notin {"ABSENT", ""}

\* C21: load_data_flow chooses its source in the order uploaded file, local
\* path, URL, NO_DATA: when it has returned, the tag names the upload exactly
\* when an upload is stored; the local file exactly when no upload is stored
\* and the local path exists; the URL exactly when neither holds and a URL is
\* configured (as a secret or in the session); and it is NO_DATA exactly when
\* no upload is stored, the local path does not exist and no URL is
\* configured.
C21_SourcePriority ==
    pc = "loaded" =>
        /\ loaded.tag \in {"UPLOAD", "UPLOAD_ERROR"} <=> UploadStored
        /\ loaded.tag \in {"LOCAL", "LOCAL_ERROR"} <=> (~UploadStored /\ LocalExists)
        /\ loaded.tag \in {"URL", "URL_ERROR"} <=> (~UploadStored /\ ~LocalExists /\ UrlConfigured)
        /\ loaded.tag = "NO_DATA" <=> (~UploadStored /\ ~LocalExists /\ ~UrlConfigured)

\* an upload is stored while the local file exists and a URL is configured,
\* and the upload is the source
C21_Witness ==
    /\ pc = "loaded"
    /\ session.uploaded_parquet = "good"
    /\ env.local = "good"
    /\ env.secret_url = "good"
    /\ loaded.tag = "UPLOAD"
    /\ Len(df.rows) = 2

ERROR_TAGS == {"UPLOAD_ERROR", "LOCAL_ERROR", "URL_ERROR"}

\* C22: a source that cannot be read or cleaned makes load_data_flow return no
\* table and no date with the error tag of that source and the message of that
\* source in last_error, and nothing is raised; a source holding an empty
\* table returns a table under the tag of a successful load, so no table is
\* returned exactly under an error tag or NO_DATA; and a run whose load
\* returned no table ends at the stop of the empty state: it does not fail and
\* goes no further.
C22_FailedLoadIsReported ==
    /\ pc = "loaded" =>
        /\ raised = ""
        /\ (UploadStored /\ session.uploaded_parquet = "bad") =>
               /\ loaded = [none |-> TRUE, tag |-> "UPLOAD_ERROR"]
               /\ session.last_error = "Error leyendo parquet cargado"
        /\ (~UploadStored /\ env.local = "bad") =>
               /\ loaded = [none |-> TRUE, tag |-> "LOCAL_ERROR"]
               /\ session.last_error = "Error leyendo parquet local"
        /\ (~UploadStored /\ ~LocalExists /\ ConfiguredUrl(session, env) = "bad") =>
               /\ loaded = [none |-> TRUE, tag |-> "URL_ERROR"]
               /\ session.last_error = "Error descargando/leyendo parquet URL"
        /\ (UploadStored /\ session.uploaded_parquet \in {"empty", "norows"}) =>
               /\ loaded = [none |-> FALSE, tag |-> "UPLOAD"]
               /\ Len(df.rows) = 0
        /\ loaded.none <=> loaded.tag \in ERROR_TAGS \cup {"NO_DATA"}
        /\ loaded.none => df = NoTable /\ ultima_fecha = None
    /\ (pc \notin {"start", "init"} /\ loaded.none) =>
        /\ pc \in {"loaded", "sidebar", "stopped"}
        /\ raised = ""

\* the URL cannot be read: the run has stopped at the empty state with the
\* message recorded
C22_Witness ==
    /\ pc = "stopped"
    /\ loaded = [none |-> TRUE, tag |-> "URL_ERROR"]
    /\ session.last_error = "Error descargando/leyendo parquet URL"
    /\ raised = ""

\* the latest date of a source, as its load computes it from the whole table
SourceDate(kind) == etl_clean(SourceTable(kind)).ultima

InRun == pc \notin {"start", "init"}

\* C23: the latest observed date of a loaded dataset is the one its load took
\* from the whole table of the source, in every run on that dataset whatever
\* the time view and the years picked are (for an upload and a local file at
\* every step of the run, for a URL when the load returns), and no step of a
\* run after the load changes it: it is not taken again from the rows a view
\* or a selection keeps.
C23_MaxDateStable ==
    /\ []((InRun /\ loaded.tag = "UPLOAD") => ultima_fecha = SourceDate(session.uploaded_parquet))
    /\ []((InRun /\ loaded.tag = "LOCAL") => ultima_fecha = SourceDate(env.local))
    /\ []((pc = "loaded" /\ loaded.tag = "URL") =>
              ultima_fecha = SourceDate(ConfiguredUrl(session, env)))
    /\ [][(InRun /\ pc' \notin {"start", "init"}) => ultima_fecha' = ultima_fecha]_vars

\* the page shows the rows of 2023 alone, whose latest date is 2023-03-10,
\* and the date of the dataset is still 2024-02-20
C23_Witness ==
    /\ pc = "paged"
    /\ loaded.tag = "UPLOAD"
    /\ sel_years = {2023}
    /\ Len(df_view.rows) = 1
    /\ MaxDate(Col(df_view, FECHA)) = Date(2023, 3, 10)
    /\ ultima_fecha = Date(2024, 2, 20)

\* C28: a source that is there but fails is not replaced by one of lower
\* priority.  An upload stored in the session stays stored in every later
\* step, reruns included; while one is stored every load returns UPLOAD or
\* UPLOAD_ERROR, and UPLOAD_ERROR with no table when it cannot be read,
\* whatever the local file and the URL are; with no upload stored, a local
\* file that exists and cannot be read gives LOCAL_ERROR with no table, the
\* URL not being used.
C28_NoFallbackOnFailure ==
    /\ [][UploadStored => session'.uploaded_parquet # "ABSENT"]_vars
    /\ []((pc = "loaded" /\ UploadStored) =>
              /\ loaded.tag \in {"UPLOAD", "UPLOAD_ERROR"}
              /\ session.uploaded_parquet = "bad" =>
                     loaded = [none |-> TRUE, tag |-> "UPLOAD_ERROR"])
    /\ []((pc = "loaded" /\ ~UploadStored /\ env.local = "bad") =>
              loaded = [none |-> TRUE, tag |-> "LOCAL_ERROR"])

\* the stored upload cannot be read while a readable local file and a readable
\* URL are there: the run has stopped on UPLOAD_ERROR
C28_Witness ==
    /\ pc = "stopped"
    /\ session.uploaded_parquet = "bad"
    /\ env.local = "good"
    /\ env.secret_url = "good"
    /\ loaded = [none |-> TRUE, tag |-> "UPLOAD_ERROR"]
    /\ df = NoTable

TimeViewValues == {l[2] : l \in TIME_VIEW_LABELS}

\* C29: once init_session_state has run, time_view is FULL or YTD in every
\* state of the session: init_session_state leaves a time_view that is there
\* as it is, every other change of time_view assigns a value of
\* TIME_VIEW_LABELS, and so the lookup of the current label in
\* sidebar_controls never fails with StopIteration.
C29_TimeViewValid ==
    /\ [](session.time_view = "ABSENT" => pc = "start")
    /\ [](session.time_view # "ABSENT" =>
              session.time_view \in {TIME_FULL, TIME_YTD} /\ session.time_view \in TimeViewValues)
    /\ [][(pc = "start" /\ session.time_view # "ABSENT") =>
              session'.time_view = session.time_view]_vars
    /\ [][(pc # "start" /\ session'.time_view # session.time_view) =>
              session'.time_view \in TimeViewValues]_vars
    /\ [](raised # "StopIteration")

\* the session holds YTD from an earlier run, init_session_state has run again
\* and the sidebar has found its label
C29_Witness ==
    /\ pc = "sidebar"
    /\ session.time_view = TIME_YTD
    /\ raised = ""

NothingComputed ==
    /\ df_main = NoTable
    /\ df_view = NoTable /\ monthly = NoTable /\ top = NoTable /\ yoy.none
    /\ pdf_dataset = NoTable

\* C30: in a run of main the time view is applied, the page is computed and
\* the exports are offered only when load_data_flow returned a table and
\* ensure_required_columns returned an empty list of missing columns; a run
\* whose load returned no table, or whose table lacks a required column, gets
\* no further than its stop, with no view and no aggregate computed; and the
\* exports are offered only for a page dataset that is not empty.
C30_GatedPipeline ==
    /\ pc \in {"viewed", "paged", "exported"} => (~loaded.none /\ missing = <<>>)
    /\ (InRun /\ (loaded.none \/ missing # <<>>)) =>
           /\ pc \in {"loaded", "sidebar", "ensured", "stopped"}
           /\ NothingComputed
    /\ pc = "stopped" => ((loaded.none \/ missing # <<>>) /\ NothingComputed)
    /\ pc = "exported" => (Len(pdf_dataset.rows) > 0 /\ pdf_dataset = df_view)

\* a stored upload without the brand column: the run has stopped on the list
\* of missing columns, nothing computed
C30_Witness ==
    /\ pc = "stopped"
    /\ ~loaded.none
    /\ missing # <<>>
    /\ Len(df_req.rows) = 1
    /\ NothingComputed

====
